---- MODULE Spec2Model ----
(***************************************************************************)
(* A model of the overlay filesystem engine of libfuse-fs                  *)
(* (project/libfuse-fs/src/overlayfs): the InodeStore, the OverlayInode    *)
(* graph, the merge / lookup engine, the copy-up engine and the operations *)
(* of the dispatcher, over an abstract pair of layers (one upper, one      *)
(* lower).                                                                 *)
(*                                                                         *)
(* Every handler is a function from a snapshot of the program state (a     *)
(* record, see St) to the state it leaves and the errno it returns; an     *)
(* action commits the state a handler leaves.  A handler that fails half   *)
(* way leaves the state it had reached, as the code does.                  *)
(***************************************************************************)
EXTENDS Integers, Sequences, FiniteSets, TLC

VARIABLES
    nodes,          \* the OverlayInode objects that are alive: id -> fields
    inodes,         \* InodeStore.inodes: inode number -> OverlayInode
    deleted,        \* InodeStore.deleted: inode number -> OverlayInode
    path_mapping,   \* InodeStore.path_mapping: path -> inode number
    nlinks,         \* InodeStore.nlinks: inode number -> counter
    next_inode,     \* InodeStore.next_inode
    inode_limit,    \* InodeStore.inode_limit
    objs,           \* the layers' objects: layer inode -> entry on disk
    upper_layer,    \* OverlayFs.upper_layer.is_some()
    last,           \* the last request and its result (history)
    served,         \* the number of requests served since the mount
    tasks,          \* the concurrent copy-ups in flight: task -> its frames
    copy            \* the copy of a regular file's data in progress

vars == <<nodes, inodes, deleted, path_mapping, nlinks, next_inode,
          inode_limit, objs,
          upper_layer, last, served, tasks, copy>>

---------------------------------------------------------------------------
(* Bounds of the model *)

MaxNodes == 6
MaxObjs == 7
MaxLookups == 2
MaxRequests == 3
InodeLimit == 9

Names == {"a", "b"}
NodeIds == 1..MaxNodes
ObjIds == 1..MaxObjs

(* AtomicU64 arithmetic wraps; TLC's integers are 32 bits wide, so the     *)
(* width is scaled: U64Max stands for 2^64 - 1.                            *)
U64Max == 2147483647
WrapAdd1(x) == IF x = U64Max THEN 0 ELSE x + 1
WrapSub1(x) == IF x = 0 THEN U64Max ELSE x - 1

\* `let x = v;` followed by e is written Let([x \in {v} |-> e]): the value of
\* a function of one argument.  (A LET would do, but TLC's coverage statistics
\* unfold a LET definition at each of its uses, and the handlers nest deep.)
Let(f) == f[CHOOSE x \in DOMAIN f : TRUE]

Min(S) == CHOOSE x \in S : \A y \in S : x <= y

MapPut(m, k, v) == [x \in (DOMAIN m) \cup {k} |-> IF x = k THEN v ELSE m[x]]
MapDel(m, k) == [x \in (DOMAIN m) \ {k} |-> m[x]]
Range(m) == {m[x] : x \in DOMAIN m}

R(s, e) == [st |-> s, err |-> e, node |-> 0]
RN(s, n) == [st |-> s, err |-> "OK", node |-> n]

---------------------------------------------------------------------------
(* The layers.  An object is one inode of one layer; a linked object has a *)
(* name in a directory of its layer.  A whiteout is a character device     *)
(* 0/0: kind "wh".                                                         *)

UpperRoot == 1
LowerRoot == 2

\* the credentials and mode an entry gets from the request that creates it;
\* ino: the inode whose stat the values are taken from (none)
ReqAttr == [uid |-> 0, gid |-> 0, perm |-> 6, ino |-> 0]

\* uid, gid, perm: the owner and permission bits on the host; src: the inode
\* whose stat the entry was created from, 0 if it was created by a request;
\* link_of: the inode that the entry is one more name of, 0 if it is none
Obj(layer, kind, parent, name) ==
    [layer |-> layer, kind |-> kind, parent |-> parent, name |-> name,
     linked |-> TRUE, opaque |-> FALSE,
     uid |-> ReqAttr.uid, gid |-> ReqAttr.gid, perm |-> ReqAttr.perm,
     src |-> 0, link_of |-> 0]

\* an entry of a lower layer, owned by another user than the one that mounts
LowerObj(kind, parent, name) ==
    [Obj("lower", kind, parent, name) EXCEPT !.uid = 3, !.gid = 4, !.perm = 5]

\* Layer::getattr_helper: the stat of the host, no ID mapping applied
getattr_helper(s, o) ==
    [kind |-> s.objs[o].kind, uid |-> s.objs[o].uid, gid |-> s.objs[o].gid,
     perm |-> s.objs[o].perm, ino |-> o]

\* the ID mapping of the mount: a host id as the container sees it
IdMap(id) == id + 10

\* Layer::getattr: the stat with uid and gid ID-mapped
getattr(s, o) ==
    [getattr_helper(s, o) EXCEPT !.uid = IdMap(@), !.gid = IdMap(@)]

LayerEntries(s, dir) ==
    {o \in DOMAIN s.objs : s.objs[o].linked /\ s.objs[o].parent = dir}

\* Layer::lookup(parent, name): the layer inode, or 0 (ENOENT)
LayerLookup(s, dir, name) ==
    Let([found \in {{o \in LayerEntries(s, dir) : s.objs[o].name = name}} |->
      IF found = {} THEN 0 ELSE CHOOSE o \in found : TRUE])

FreeObjs(s) == ObjIds \ DOMAIN s.objs

\* Layer::mkdir_helper / create_helper / symlink_helper: a new entry with the
\* uid, gid and mode given, EEXIST over a name
LayerMkAs(s, dir, name, kind, attr) ==
    IF s.objs[dir].kind # "dir" THEN R(s, "ENOTDIR")
    ELSE IF LayerLookup(s, dir, name) # 0 THEN R(s, "EEXIST")
    ELSE IF FreeObjs(s) = {} THEN R([s EXCEPT !.full = TRUE], "EIO")
    ELSE Let([o \in {Min(FreeObjs(s))} |->
           RN([s EXCEPT !.objs =
                  MapPut(@, o, [Obj(s.objs[dir].layer, kind, dir, name) EXCEPT
                                  !.uid = attr.uid, !.gid = attr.gid,
                                  !.perm = attr.perm, !.src = attr.ino])], o)])

\* Layer::mkdir / mknod / create / symlink: a new entry with the credentials
\* of the request, EEXIST over a name
LayerMk(s, dir, name, kind) ==
    LayerMkAs(s, dir, name, kind, ReqAttr)

\* Layer::link(ino, newparent, newname), as link(2): one more name for the
\* inode, which is an entry of its own with the kind and the owner of ino
LayerLink(s, ino, dir, name) ==
    IF s.objs[dir].kind # "dir" THEN R(s, "ENOTDIR")
    ELSE IF ino \notin DOMAIN s.objs THEN R(s, "ENOENT")
    ELSE IF s.objs[ino].kind = "dir" THEN R(s, "EPERM")
    ELSE IF s.objs[ino].layer # s.objs[dir].layer THEN R(s, "EXDEV")
    ELSE IF LayerLookup(s, dir, name) # 0 THEN R(s, "EEXIST")
    ELSE IF FreeObjs(s) = {} THEN R([s EXCEPT !.full = TRUE], "EIO")
    ELSE Let([o \in {Min(FreeObjs(s))} |->
           RN([s EXCEPT !.objs =
                  MapPut(@, o, [s.objs[ino] EXCEPT
                                  !.parent = dir, !.name = name,
                                  !.linked = TRUE,
                                  !.link_of = IF s.objs[ino].link_of # 0
                                              THEN s.objs[ino].link_of
                                              ELSE ino])], o)])

\* Layer::unlink(parent, name)
LayerUnlink(s, dir, name) ==
    Let([o \in {LayerLookup(s, dir, name)} |->
      IF o = 0 THEN R(s, "ENOENT")
      ELSE IF s.objs[o].kind = "dir" THEN R(s, "EISDIR")
      ELSE R([s EXCEPT !.objs[o].linked = FALSE, !.objs[o].parent = 0], "OK")])

\* Layer::rmdir(parent, name)
LayerRmdir(s, dir, name) ==
    Let([o \in {LayerLookup(s, dir, name)} |->
      IF o = 0 THEN R(s, "ENOENT")
      ELSE IF s.objs[o].kind # "dir" THEN R(s, "ENOTDIR")
      ELSE IF LayerEntries(s, o) # {} THEN R(s, "ENOTEMPTY")
      ELSE R([s EXCEPT !.objs[o].linked = FALSE, !.objs[o].parent = 0], "OK")])

---------------------------------------------------------------------------
(* RealInode and OverlayInode *)

RealInode(layer, in_upper_layer, inode, whiteout, opaque) ==
    [layer |-> layer, in_upper_layer |-> in_upper_layer, inode |-> inode,
     whiteout |-> whiteout, opaque |-> opaque]

\* Layer::getattr on the layer inode of a RealInode: its kind, or "ENOENT"
RiKind(s, ri) ==
    IF ri.inode \in DOMAIN s.objs THEN s.objs[ri.inode].kind ELSE "ENOENT"

new_from_real_inode(name, ino, path, ri) ==
    [inode |-> ino, path |-> path, name |-> name, parent |-> 0,
     real_inodes |-> <<ri>>, lookups |-> 1, whiteout |-> ri.whiteout,
     loaded |-> FALSE, childrens |-> <<>>]

\* the walk without the stop after an opaque directory
RECURSIVE MergeWalk_through(_, _, _, _)
MergeWalk_through(s, ris, i, acc) ==
    IF i > Len(ris) THEN acc
    ELSE IF ris[i].whiteout \/ RiKind(s, ris[i]) # "dir" THEN acc
    ELSE MergeWalk_through(s, ris, i + 1, Append(acc, ris[i]))

\* the else branch of the loop of new_from_real_inodes, from the element i on
RECURSIVE MergeWalk(_, _, _, _)
MergeWalk(s, ris, i, acc) ==
    IF i > Len(ris) THEN acc
    ELSE LET ri == ris[i]
         IN IF ri.whiteout THEN acc
            ELSE IF RiKind(s, ri) # "dir" THEN acc
            ELSE IF ri.opaque THEN Append(acc, ri)
            ELSE MergeWalk(s, ris, i + 1, Append(acc, ri))

new_from_real_inodes(s, name, ino, path, ris) ==
    LET first == ris[1]
    IN Let([new \in {new_from_real_inode(name, ino, path, first)} |->
         IF first.whiteout \/ RiKind(s, first) # "dir" \/ first.opaque
         THEN new
         ELSE [new EXCEPT !.real_inodes = MergeWalk(s, ris, 2, <<first>>)]])

\* the index of the RealInode OverlayInode::stat64 answers from, 0 if none
RECURSIVE StatIndexFrom(_, _, _)
StatIndexFrom(s, ris, i) ==
    IF i > Len(ris) THEN 0
    ELSE IF ris[i].inode # 0 /\ RiKind(s, ris[i]) # "ENOENT" THEN i
    ELSE StatIndexFrom(s, ris, i + 1)

StatIndex(s, n) == StatIndexFrom(s, s.nodes[n].real_inodes, 1)

\* OverlayInode::stat64: the file kind, or "ENOENT"
stat64(s, n) ==
    IF StatIndex(s, n) = 0 THEN "ENOENT"
    ELSE RiKind(s, s.nodes[n].real_inodes[StatIndex(s, n)])

in_upper_layer(s, n) ==
    LET ris == s.nodes[n].real_inodes
    IN IF Len(ris) = 0 THEN FALSE ELSE ris[1].in_upper_layer

upper_layer_only(s, n) ==
    LET ris == s.nodes[n].real_inodes
    IN IF Len(ris) = 0 THEN FALSE
       ELSE IF ~ris[1].in_upper_layer THEN FALSE ELSE Len(ris) = 1

child(s, n, name) ==
    IF name \in DOMAIN s.nodes[n].childrens THEN s.nodes[n].childrens[name]
    ELSE 0

insert_child(s, n, name, c) ==
    [s EXCEPT !.nodes[n].childrens = MapPut(@, name, c)]

remove_child(s, n, name) ==
    [s EXCEPT !.nodes[n].childrens = MapDel(@, name)]

FreeNodes(s) == NodeIds \ DOMAIN s.nodes

---------------------------------------------------------------------------
(* InodeStore *)

\* the probe without `if ino > self.inode_limit { ino = 1; }`
RECURSIVE Probe_nowrap(_, _, _)
Probe_nowrap(s, ino, k) ==
    IF k = 0 \/ ino > s.inode_limit THEN 0
    ELSE IF ino \notin DOMAIN s.inodes /\ ino \notin DOMAIN s.deleted THEN ino
    ELSE Probe_nowrap(s, ino + 1, k - 1)

\* the loop of alloc_unique_inode with k iterations left: the number it
\* returns, 0 when it runs out
RECURSIVE Probe(_, _, _)
Probe(s, ino, k) ==
    IF k = 0 THEN 0
    ELSE Let([i \in {IF ino > s.inode_limit THEN 1 ELSE ino} |->
           IF i \notin DOMAIN s.inodes /\ i \notin DOMAIN s.deleted THEN i
           ELSE Probe(s, i + 1, k - 1)])

alloc_unique_inode(s) ==
    Let([ino \in {Probe(s, s.next_inode, s.inode_limit)} |->
      IF ino = 0 THEN [st |-> s, err |-> "EIO", ino |-> 0]
      ELSE [st |-> [s EXCEPT !.next_inode = ino + 1], err |-> "OK",
            ino |-> ino]])

\* alloc_inode without the look at path_mapping
alloc_inode_fresh(s, path) ==
    alloc_unique_inode(s)

alloc_inode(s, path) ==
    IF path \in DOMAIN s.path_mapping
    THEN [st |-> s, err |-> "OK", ino |-> s.path_mapping[path]]
    ELSE alloc_unique_inode(s)

insert_inode(s, inode, n) ==
    [s EXCEPT
       !.path_mapping = MapPut(@, s.nodes[n].path, inode),
       !.nlinks = MapPut(@, inode,
                         WrapAdd1(IF inode \in DOMAIN @ THEN @[inode] ELSE 0)),
       !.inodes = IF inode \in DOMAIN @ THEN @ ELSE MapPut(@, inode, n)]

get_all_inode(s, inode) ==
    IF inode \in DOMAIN s.inodes THEN s.inodes[inode]
    ELSE IF inode \in DOMAIN s.deleted THEN s.deleted[inode]
    ELSE 0

\* path_removed: <<path>> for Some(path), <<>> for None
remove_inode(s, inode, path_removed) ==
    IF inode \notin DOMAIN s.nlinks THEN s
    ELSE
      LET old_nlink == s.nlinks[inode]
      IN Let([s1 \in {[s EXCEPT
                         !.nlinks[inode] = WrapSub1(old_nlink),
                         !.path_mapping = IF path_removed = <<>> THEN @
                                          ELSE MapDel(@, path_removed[1])]} |->
           IF old_nlink = 1 /\ inode \in DOMAIN s1.inodes
           THEN LET n == s1.inodes[inode]
                IN Let([s2 \in {[s1 EXCEPT !.inodes = MapDel(@, inode)]} |->
                     IF s2.nodes[n].lookups > 0
                     THEN [s2 EXCEPT !.deleted = MapPut(@, inode, n)]
                     ELSE [s2 EXCEPT !.nlinks = MapDel(@, inode)]])
           ELSE s1])

---------------------------------------------------------------------------
(* Merge / lookup engine *)

\* RealInode::lookup_child: the child's RealInode, as a sequence (empty: None)
lookup_child(s, ri, name) ==
    IF ri.whiteout THEN <<>>
    ELSE Let([o \in {LayerLookup(s, ri.inode, name)} |->
           IF o = 0 THEN <<>>
           ELSE <<RealInode(ri.layer, ri.in_upper_layer, o, FALSE, FALSE)>>])

\* RealInode::readdir: name -> RealInode of every entry of the directory
ri_readdir(s, ri) ==
    [name \in {s.objs[o].name : o \in LayerEntries(s, ri.inode)} |->
        lookup_child(s, ri, name)[1]]

RECURSIVE ScanWalk(_, _, _, _)
ScanWalk(s, ris, i, all) ==
    IF i > Len(ris) THEN all
    ELSE LET ri == ris[i]
         IN IF ri.whiteout \/ RiKind(s, ri) # "dir" THEN all
            ELSE Let([entries \in {ri_readdir(s, ri)} |->
                   LET merged == [name \in (DOMAIN all) \cup (DOMAIN entries) |->
                                    IF name \notin DOMAIN entries THEN all[name]
                                    ELSE IF name \in DOMAIN all
                                         THEN Append(all[name], entries[name])
                                         ELSE <<entries[name]>>]
                   IN IF ri.opaque THEN merged
                      ELSE ScanWalk(s, ris, i + 1, merged)])

\* OverlayInode::scan_childrens: name -> the RealInodes of the name, upper first
scan_childrens(s, n) ==
    IF stat64(s, n) # "dir"
    THEN [err |-> IF stat64(s, n) = "ENOENT" THEN "ENOENT" ELSE "ENOTDIR",
          all |-> <<>>]
    ELSE [err |-> "OK", all |-> ScanWalk(s, s.nodes[n].real_inodes, 1, <<>>)]

\* the loop of load_directory over the scanned children, in the order s.ord
RECURSIVE LoadLoop(_, _, _, _)
LoadLoop(s, n, all, i) ==
    IF i > Len(s.ord) THEN R([s EXCEPT !.nodes[n].loaded = TRUE], "OK")
    ELSE IF s.ord[i] \notin DOMAIN all THEN LoadLoop(s, n, all, i + 1)
    ELSE
      LET name == s.ord[i]
      IN LET path == Append(s.nodes[n].path, name)
         IN Let([a \in {alloc_inode(s, path)} |->
              IF a.err # "OK" THEN R(a.st, a.err)
              ELSE IF FreeNodes(a.st) = {} THEN R([a.st EXCEPT !.full = TRUE], "EIO")
              ELSE
                Let([c \in {Min(FreeNodes(a.st))} |->
                  Let([new \in {[new_from_real_inodes(a.st, name, a.ino, path, all[name])
                                   EXCEPT !.parent = n]} |->
                    Let([s1 \in {[a.st EXCEPT !.nodes = MapPut(@, c, new)]} |->
                      Let([s2 \in {insert_child(s1, n, name, c)} |->
                        LoadLoop(insert_inode(s2, a.ino, c), n, all, i + 1)])])])])])

load_directory(s, n) ==
    IF s.nodes[n].loaded THEN R(s, "OK")
    ELSE Let([sc \in {scan_childrens(s, n)} |->
           IF sc.err # "OK" THEN R(s, sc.err)
           ELSE LoadLoop(s, n, sc.all, 1)])

\* name "" stands for the empty name and for "."
lookup_node(s, parent, name) ==
    Let([pnode \in {get_all_inode(s, parent)} |->
      IF pnode = 0 THEN R(s, "ENOENT")
      ELSE IF s.nodes[pnode].whiteout THEN R(s, "ENOENT")
      ELSE IF stat64(s, pnode) = "ENOENT" THEN R(s, "ENOENT")
      ELSE
        Let([ld \in {IF stat64(s, pnode) = "dir" /\ ~s.nodes[pnode].loaded
                     THEN load_directory(s, pnode) ELSE R(s, "OK")} |->
          IF ld.err # "OK" THEN ld
          ELSE IF name = "" THEN RN(ld.st, pnode)
          ELSE IF child(ld.st, pnode, name) # 0
               THEN RN(ld.st, child(ld.st, pnode, name))
          ELSE R(ld.st, "ENOENT")])])

lookup_node_ignore_enoent(s, parent, name) ==
    Let([r \in {lookup_node(s, parent, name)} |->
      IF r.err = "ENOENT" THEN RN(r.st, 0) ELSE r])

\* do_lookup down to `node.lookups.fetch_add(1, ..)`: the node is found
LookupFind(s, parent, name) ==
    Let([r \in {lookup_node(s, parent, name)} |->
      IF r.err # "OK" THEN r
      ELSE IF r.st.nodes[r.node].whiteout THEN R(r.st, "ENOENT")
      ELSE IF stat64(r.st, r.node) = "ENOENT" THEN R(r.st, "ENOENT")
      ELSE
        Let([ld \in {IF stat64(r.st, r.node) = "dir" /\ ~r.st.nodes[r.node].loaded
                     THEN load_directory(r.st, r.node) ELSE R(r.st, "OK")} |->
          IF ld.err # "OK" THEN ld ELSE RN(ld.st, r.node)])])

\* AtomicU64::fetch_add(1) on the lookups of a node
fetch_add(s, n) ==
    [s EXCEPT !.nodes[n].lookups = @ + 1]

do_lookup(s, parent, name) ==
    Let([r \in {LookupFind(s, parent, name)} |->
      IF r.err # "OK" THEN r ELSE RN(fetch_add(r.st, r.node), r.node)])

\* a compare-and-exchange that stores whatever the value has become
fetch_update_blind(s, n, current, count) ==
    [ok |-> TRUE,
     st |-> [s EXCEPT !.nodes[n].lookups =
                        IF current < count THEN 0 ELSE current - count],
     current |-> current]

\* one round of AtomicU64::fetch_update with the closure of forget_one: the
\* value read before was current; the store happens if the value still is
\* current, else the round hands back the value found
fetch_update(s, n, current, count) ==
    IF s.nodes[n].lookups = current
    THEN [ok |-> TRUE,
          st |-> [s EXCEPT !.nodes[n].lookups =
                             IF current < count THEN 0 ELSE current - count],
          current |-> current]
    ELSE [ok |-> FALSE, st |-> s, current |-> s.nodes[n].lookups]

\* forget_one after the fetch_update, with the count it has loaded
ForgetDrop(s, inode, v, lookups) ==
    IF lookups # 0 THEN s
    ELSE Let([s2 \in {remove_inode(s, inode, <<>>)} |->
           LET p == s2.nodes[v].parent
           IN IF p = 0 THEN s2
              ELSE remove_child(s2, p, s2.nodes[v].name)])

RootInode == 1

\* forget_one without `if inode == self.root_inode() || inode == 0`
forget_one_any(s, inode, count) ==
    Let([v \in {get_all_inode(s, inode)} |->
      IF v = 0 THEN s
      ELSE
        LET cur == s.nodes[v].lookups
        IN LET s1 == [s EXCEPT !.nodes[v].lookups =
                                  IF cur < count THEN 0 ELSE cur - count]
           IN IF s1.nodes[v].lookups # 0 THEN s1
              ELSE Let([s2 \in {remove_inode(s1, inode, <<>>)} |->
                     LET p == s2.nodes[v].parent
                     IN IF p = 0 THEN s2
                        ELSE remove_child(s2, p, s2.nodes[v].name)])])

forget_one(s, inode, count) ==
    IF inode = RootInode \/ inode = 0 THEN s
    ELSE Let([v \in {get_all_inode(s, inode)} |->
           IF v = 0 THEN s
           ELSE
             LET cur == s.nodes[v].lookups
             IN LET s1 == [s EXCEPT !.nodes[v].lookups =
                                       IF cur < count THEN 0 ELSE cur - count]
                IN IF s1.nodes[v].lookups # 0 THEN s1
                   ELSE Let([s2 \in {remove_inode(s1, inode, <<>>)} |->
                          LET p == s2.nodes[v].parent
                          IN IF p = 0 THEN s2
                             ELSE remove_child(s2, p, s2.nodes[v].name)])])

---------------------------------------------------------------------------
(* More of the layers' primitives *)

\* Layer::delete_whiteout (the trait's default implementation)
delete_whiteout(s, dir, name) ==
    Let([o \in {LayerLookup(s, dir, name)} |->
      IF o = 0 THEN R(s, "ENOENT")
      ELSE IF s.objs[o].kind = "wh" THEN LayerUnlink(s, dir, name)
      ELSE R(s, "EINVAL")])

\* Layer::create_whiteout (the trait's default implementation)
create_whiteout(s, dir, name) ==
    Let([o \in {LayerLookup(s, dir, name)} |->
      IF o # 0 /\ s.objs[o].kind = "wh" THEN RN(s, o)
      ELSE IF o # 0 THEN R(s, "EEXIST")
      ELSE LayerMk(s, dir, name, "wh")])

\* Layer::set_opaque: the xattr user.fuseoverlayfs.opaque = "y"
set_opaque(s, o) ==
    IF s.objs[o].kind # "dir" THEN R(s, "ENOTDIR")
    ELSE R([s EXCEPT !.objs[o].opaque = TRUE], "OK")

IsUnder(s, o, dir) ==
    \/ o = dir
    \/ s.objs[o].parent = dir
    \/ (s.objs[o].parent # 0 /\ s.objs[s.objs[o].parent].parent = dir)

\* Layer::rename, as rename(2)
LayerRename(s, dir, name, newdir, newname) ==
    Let([src \in {LayerLookup(s, dir, name)} |->
      Let([dst \in {LayerLookup(s, newdir, newname)} |->
        IF s.objs[dir].kind # "dir" \/ s.objs[newdir].kind # "dir"
        THEN R(s, "ENOTDIR")
        ELSE IF src = 0 THEN R(s, "ENOENT")
        ELSE IF src = dst THEN R(s, "OK")
        ELSE IF s.objs[src].kind = "dir" /\ IsUnder(s, newdir, src)
             THEN R(s, "EINVAL")
        ELSE IF dst # 0 /\ s.objs[src].kind = "dir" /\ s.objs[dst].kind # "dir"
             THEN R(s, "ENOTDIR")
        ELSE IF dst # 0 /\ s.objs[src].kind # "dir" /\ s.objs[dst].kind = "dir"
             THEN R(s, "EISDIR")
        ELSE IF dst # 0 /\ LayerEntries(s, dst) # {} THEN R(s, "ENOTEMPTY")
        ELSE
          LET s1 == IF dst = 0 THEN s
                    ELSE [s EXCEPT !.objs[dst].linked = FALSE,
                                   !.objs[dst].parent = 0]
          IN R([s1 EXCEPT !.objs[src].parent = newdir,
                          !.objs[src].name = newname], "OK")])])

---------------------------------------------------------------------------
(* Copy-up engine *)

\* add_upper_inode that keeps the lowers whatever clear_lowers is
add_upper_inode_keep(s, n, ri, clear_lowers) ==
    [s EXCEPT !.nodes[n].whiteout = ri.whiteout,
              !.nodes[n].real_inodes = <<ri>> \o @]

\* add_upper_inode with a slip: the drained list is put back instead of the
\* new RealInode, so that clearing the lowers leaves the list empty
add_upper_inode_drained(s, n, ri, clear_lowers) ==
    [s EXCEPT !.nodes[n].whiteout = ri.whiteout,
              !.nodes[n].real_inodes = IF clear_lowers THEN <<>> ELSE <<ri>> \o @]

\* add_upper_inode that puts the new RealInode behind the ones of the lower
\* layers
add_upper_inode_behind(s, n, ri, clear_lowers) ==
    [s EXCEPT !.nodes[n].whiteout = ri.whiteout,
              !.nodes[n].real_inodes =
                  IF clear_lowers THEN <<ri>> ELSE @ \o <<ri>>]

add_upper_inode(s, n, ri, clear_lowers) ==
    [s EXCEPT !.nodes[n].whiteout = ri.whiteout,
              !.nodes[n].real_inodes =
                  IF clear_lowers THEN <<ri>> ELSE <<ri>> \o @]

\* what handle_upper_inode_locked hands to its closure, or the error it
\* returns itself: [err, ri] with ri = <<>> for None
handle_upper_inode_locked(s, n) ==
    LET ris == s.nodes[n].real_inodes
    IN IF Len(ris) = 0 THEN [err |-> "EIO", ri |-> <<>>]
       ELSE IF ris[1].in_upper_layer THEN [err |-> "OK", ri |-> <<ris[1]>>]
       ELSE [err |-> "OK", ri |-> <<>>]

\* the stat a copy-up takes the owner and the mode from, with the ID-mapped
\* getattr in the place of getattr_helper
CopyUpStat_mapped(s, n) ==
    getattr(s, s.nodes[n].real_inodes[1].inode)

\* `first_layer_inode()`, then `getattr_helper(self_inode, None)`: the stat a
\* copy-up takes the owner and the mode from
CopyUpStat(s, n) ==
    getattr_helper(s, s.nodes[n].real_inodes[1].inode)

\* what the helper is called with: st.attr.uid, st.attr.gid, and
\* mode_from_kind_and_perm(st.attr.kind, st.attr.perm); symlink_helper takes
\* no mode, a symbolic link has all permission bits
HelperAttr(kind, st) ==
    IF kind = "lnk" THEN [st EXCEPT !.perm = 7] ELSE st

\* the creation step that the three copy-ups share: the entry is made in
\* the parent's upper directory, under the parent's real_inodes lock
CreateInParentUpper(s, p, name, kind, none_err, st) ==
    Let([h \in {handle_upper_inode_locked(s, p)} |->
      IF h.err # "OK" THEN R(s, h.err)
      ELSE IF h.ri = <<>> THEN R(s, none_err)
      ELSE LayerMkAs(s, h.ri[1].inode, name, kind, HelperAttr(kind, st))])

RECURSIVE create_upper_dir(_, _)
create_upper_dir(s, n) ==
    LET ris == s.nodes[n].real_inodes
    IN IF Len(ris) = 0 THEN R(s, "PANIC")
       ELSE IF RiKind(s, ris[1]) = "ENOENT" THEN R(s, "ENOENT")
       ELSE IF RiKind(s, ris[1]) # "dir" THEN R(s, "ENOTDIR")
       ELSE IF in_upper_layer(s, n) THEN R(s, "OK")
       ELSE IF s.nodes[n].parent = 0 THEN R(s, "EIO")
       ELSE
         LET p == s.nodes[n].parent
         IN Let([up \in {IF ~in_upper_layer(s, p) THEN create_upper_dir(s, p)
                         ELSE R(s, "OK")} |->
              IF up.err # "OK" THEN up
              ELSE
                Let([mk \in {CreateInParentUpper(up.st, p, s.nodes[n].name, "dir",
                                                 "EINVAL", CopyUpStat(s, n))} |->
                  IF mk.err # "OK" THEN mk
                  ELSE R(add_upper_inode(mk.st, n,
                           RealInode("upper", TRUE, mk.node, FALSE, FALSE),
                           FALSE), "OK")])])

\* copy_symlink_up (kind "lnk") and copy_regfile_up (kind "reg"); the copy
\* of the file's content is the loop of CopyRead and CopyWrite below
CopyFileUp(s, n, kind, none_err) ==
    IF in_upper_layer(s, n) THEN RN(s, n)
    ELSE IF s.nodes[n].parent = 0 THEN R(s, "EIO")
    ELSE IF Len(s.nodes[n].real_inodes) = 0 THEN R(s, "PANIC")
    ELSE IF RiKind(s, s.nodes[n].real_inodes[1]) = "ENOENT" THEN R(s, "ENOENT")
    ELSE
      LET p == s.nodes[n].parent
      IN Let([up \in {IF ~in_upper_layer(s, p) THEN create_upper_dir(s, p)
                      ELSE R(s, "OK")} |->
           IF up.err # "OK" THEN up
           ELSE
             Let([mk \in {CreateInParentUpper(up.st, p, s.nodes[n].name, kind,
                                              none_err, CopyUpStat(s, n))} |->
               IF mk.err # "OK" THEN mk
               ELSE RN(add_upper_inode(mk.st, n,
                         RealInode("upper", TRUE, mk.node, FALSE, FALSE),
                         TRUE), n)])])

copy_symlink_up(s, n) == CopyFileUp(s, n, "lnk", "EROFS")

copy_regfile_up(s, n) == CopyFileUp(s, n, "reg", "EINVAL")

copy_node_up(s, n) ==
    IF in_upper_layer(s, n) THEN RN(s, n)
    ELSE IF stat64(s, n) = "ENOENT" THEN R(s, "ENOENT")
    ELSE IF stat64(s, n) = "dir"
         THEN Let([r \in {create_upper_dir(s, n)} |->
                IF r.err # "OK" THEN r ELSE RN(r.st, n)])
    ELSE IF stat64(s, n) = "lnk" THEN copy_symlink_up(s, n)
    ELSE IF stat64(s, n) = "reg" THEN copy_regfile_up(s, n)
    ELSE R(s, "EINVAL")

\* the names of a children map in the order the map is iterated, s.ord
ChildNames(s, n) ==
    SelectSeq(s.ord, LAMBDA name : name \in DOMAIN s.nodes[n].childrens)

RECURSIVE copy_directory_up(_, _)
RECURSIVE CopyChildrenUp(_, _, _)
\* the loop of copy_directory_up over a clone of the children map
CopyChildrenUp(s, todo, i) ==
    IF i > Len(todo) THEN R(s, "OK")
    ELSE
      LET c == todo[i]
      IN IF c \notin DOMAIN s.nodes \/ s.nodes[c].whiteout
         THEN CopyChildrenUp(s, todo, i + 1)
         ELSE IF stat64(s, c) = "ENOENT" THEN R(s, "ENOENT")
         ELSE
           Let([r \in {IF ~in_upper_layer(s, c)
                       THEN IF stat64(s, c) = "dir" THEN copy_directory_up(s, c)
                            ELSE IF stat64(s, c) \in {"lnk", "reg"}
                                 THEN copy_node_up(s, c)
                            ELSE R(s, "OK")
                       ELSE IF stat64(s, c) = "dir" THEN copy_directory_up(s, c)
                       ELSE R(s, "OK")} |->
             IF r.err # "OK" THEN r ELSE CopyChildrenUp(r.st, todo, i + 1)])

copy_directory_up(s, n) ==
    Let([up \in {copy_node_up(s, n)} |->
      IF up.err # "OK" THEN up
      ELSE Let([ld \in {load_directory(up.st, n)} |->
             IF ld.err # "OK" THEN ld
             ELSE
               Let([names \in {ChildNames(ld.st, n)} |->
                 LET todo == [i \in 1..Len(names) |->
                                ld.st.nodes[n].childrens[names[i]]]
                 IN Let([r \in {CopyChildrenUp(ld.st, todo, 1)} |->
                      IF r.err # "OK" THEN r ELSE RN(r.st, n)])])])])

---------------------------------------------------------------------------
(* Op dispatcher *)

\* Arc::new of a node a handler has built: the node's id, 0 when the model
\* has no id left (the state is then marked full and never committed)
AddNode(s, new) ==
    IF FreeNodes(s) = {} THEN RN([s EXCEPT !.full = TRUE], 0)
    ELSE RN([s EXCEPT !.nodes = MapPut(@, Min(FreeNodes(s)), new)],
            Min(FreeNodes(s)))

\* the tail that mkdir, mknod, create, symlink and the whiteout of do_rm
\* share: insert_inode(ino, node), then pnode.insert_child(name, node)
InsertNew(s, p, name, new) ==
    Let([a \in {AddNode(s, new)} |->
      IF a.node = 0 THEN R(a.st, "EIO")
      ELSE RN(insert_child(insert_inode(a.st, new.inode, a.node), p, name,
                           a.node), a.node)])

do_mkdir(s, parent_node, name) ==
    IF ~s.upper THEN R(s, "EROFS")
    ELSE IF s.nodes[parent_node].whiteout THEN R(s, "ENOENT")
    ELSE
      Let([lk \in {lookup_node_ignore_enoent(s, s.nodes[parent_node].inode, name)} |->
        LET n == lk.node
        IN IF lk.err # "OK" THEN lk
           ELSE IF n # 0 /\ ~lk.st.nodes[n].whiteout THEN R(lk.st, "EEXIST")
           ELSE
             Let([del_wh \in {n # 0 /\ in_upper_layer(lk.st, n)} |->
               Let([opaque \in {n # 0 /\ ~upper_layer_only(lk.st, n)} |->
                 Let([up \in {copy_node_up(lk.st, parent_node)} |->
                   IF up.err # "OK" THEN up
                   ELSE
                     LET pnode == up.node
                     IN LET path == Append(up.st.nodes[pnode].path, name)
                        IN Let([h \in {handle_upper_inode_locked(up.st, pnode)} |->
                             IF h.err # "OK" THEN R(up.st, h.err)
                             ELSE IF h.ri = <<>> THEN R(up.st, "EINVAL")
                             ELSE
                               LET pri == h.ri[1]
                               IN Let([s1 \in {IF del_wh
                                               THEN delete_whiteout(up.st, pri.inode, name).st
                                               ELSE up.st} |->
                                    Let([a \in {alloc_inode(s1, path)} |->
                                      IF a.err # "OK" THEN R(a.st, a.err)
                                      ELSE
                                        Let([mk \in {LayerMk(a.st, pri.inode, name, "dir")} |->
                                          IF mk.err # "OK" THEN mk
                                          ELSE
                                            Let([s2 \in {IF opaque
                                                         THEN set_opaque(mk.st, mk.node).st
                                                         ELSE mk.st} |->
                                              Let([ovi \in {new_from_real_inode(name, a.ino, path,
                                                              RealInode(pri.layer, TRUE, mk.node,
                                                                        FALSE, FALSE))} |->
                                                InsertNew(s2, pnode, name, ovi)])])])])])])])])])])

\* do_create (kind "reg", the layer call first), do_mknod (kind "reg") and
\* do_symlink (kind "lnk"), which allocate the inode number first
CreateEntry(s, parent_node, name, kind, alloc_first) ==
    IF ~s.upper THEN R(s, "EROFS")
    ELSE IF s.nodes[parent_node].whiteout THEN R(s, "ENOENT")
    ELSE
      Let([lk \in {lookup_node_ignore_enoent(s, s.nodes[parent_node].inode, name)} |->
        LET n == lk.node
        IN IF lk.err # "OK" THEN lk
           ELSE IF n # 0 /\ ~lk.st.nodes[n].whiteout THEN R(lk.st, "EEXIST")
           ELSE
             Let([up \in {copy_node_up(lk.st, parent_node)} |->
               IF up.err # "OK" THEN up
               ELSE
                 LET pnode == up.node
                 IN Let([h \in {handle_upper_inode_locked(up.st, pnode)} |->
                      IF h.err # "OK" THEN R(up.st, h.err)
                      ELSE IF h.ri = <<>> THEN R(up.st, "EINVAL")
                      ELSE IF n # 0
                      THEN \* over a whiteout: the node is kept
                        LET pri == h.ri[1]
                        IN Let([s1 \in {IF in_upper_layer(up.st, n)
                                        THEN delete_whiteout(up.st, pri.inode, name).st
                                        ELSE up.st} |->
                             Let([mk \in {LayerMk(s1, pri.inode, name, kind)} |->
                               IF mk.err # "OK" THEN mk
                               ELSE RN(add_upper_inode(mk.st, n,
                                         RealInode(pri.layer, TRUE, mk.node, FALSE,
                                                   FALSE), TRUE), n)])])
                      ELSE
                        LET pri == h.ri[1]
                        IN LET path == Append(up.st.nodes[pnode].path, name)
                           IN Let([a1 \in {IF alloc_first THEN alloc_inode(up.st, path)
                                           ELSE [st |-> up.st, err |-> "OK", ino |-> 0]} |->
                                IF a1.err # "OK" THEN R(a1.st, a1.err)
                                ELSE
                                  Let([mk \in {LayerMk(a1.st, pri.inode, name, kind)} |->
                                    IF mk.err # "OK" THEN mk
                                    ELSE
                                      Let([a2 \in {IF alloc_first
                                                   THEN [st |-> mk.st, err |-> "OK",
                                                         ino |-> a1.ino]
                                                   ELSE alloc_inode(mk.st, path)} |->
                                        IF a2.err # "OK" THEN R(a2.st, a2.err)
                                        ELSE InsertNew(a2.st, pnode, name,
                                               new_from_real_inode(name, a2.ino, path,
                                                 RealInode(pri.layer, TRUE, mk.node,
                                                           FALSE, FALSE)))])])])])])])

do_create(s, parent_node, name) ==
    CreateEntry(s, parent_node, name, "reg", FALSE)

do_mknod(s, parent_node, name) ==
    CreateEntry(s, parent_node, name, "reg", TRUE)

do_symlink(s, parent_node, name) ==
    CreateEntry(s, parent_node, name, "lnk", TRUE)

\* count_entries_and_whiteout that takes every child for a whiteout
count_entries_and_whiteout_blind(s, n) ==
    <<0, Cardinality(DOMAIN s.nodes[n].childrens)>>

\* OverlayInode::count_entries_and_whiteout: <<count, whiteouts>>
count_entries_and_whiteout(s, n) ==
    LET cs == s.nodes[n].childrens
    IN <<Cardinality({x \in DOMAIN cs : ~s.nodes[cs[x]].whiteout}),
         Cardinality({x \in DOMAIN cs : s.nodes[cs[x]].whiteout})>>

\* empty_node_directory that leaves the whiteouts where they are
empty_node_directory_skip(s, n) ==
    R(s, "OK")

RECURSIVE empty_node_directory(_, _)
RECURSIVE EmptyLoop(_, _, _, _, _)
\* the loop of empty_node_directory over a copy of the children
EmptyLoop(s, n, dir, todo, i) ==
    IF i > Len(todo) THEN R(s, "OK")
    ELSE
      LET c == todo[i]
      IN IF ~in_upper_layer(s, c) THEN EmptyLoop(s, n, dir, todo, i + 1)
         ELSE
           LET name == s.nodes[c].name
           IN Let([r \in {IF s.nodes[c].whiteout THEN delete_whiteout(s, dir, name)
                          ELSE IF stat64(s, c) = "ENOENT" THEN R(s, "ENOENT")
                          ELSE IF stat64(s, c) = "dir"
                          THEN Let([cw \in {count_entries_and_whiteout(s, c)} |->
                                 Let([e \in {IF cw[1] + cw[2] > 0
                                             THEN empty_node_directory(s, c)
                                             ELSE R(s, "OK")} |->
                                   IF e.err # "OK" THEN e
                                   ELSE LayerRmdir(e.st, dir, name)])])
                          ELSE LayerUnlink(s, dir, name)} |->
                IF r.err # "OK" THEN r
                ELSE EmptyLoop(remove_child(
                                 remove_inode(r.st, s.nodes[c].inode,
                                              <<s.nodes[c].path>>), n, name),
                               n, dir, todo, i + 1)])

empty_node_directory(s, n) ==
    IF stat64(s, n) = "ENOENT" THEN R(s, "ENOENT")
    ELSE IF stat64(s, n) # "dir" THEN R(s, "ENOTDIR")
    ELSE IF Len(s.nodes[n].real_inodes) = 0 THEN R(s, "PANIC")
    ELSE IF ~s.nodes[n].real_inodes[1].in_upper_layer THEN R(s, "OK")
    ELSE Let([names \in {ChildNames(s, n)} |->
           EmptyLoop(s, n, s.nodes[n].real_inodes[1].inode,
                     [i \in 1..Len(names) |-> s.nodes[n].childrens[names[i]]],
                     1)])

\* step 7 of do_rm as do_rename does it: the whiteout is made in the layer
\* and no node is made for it
RmWhiteout_layer_only(s, pnode, name) ==
    Let([h \in {handle_upper_inode_locked(s, pnode)} |->
      IF h.err # "OK" THEN R(s, h.err)
      ELSE IF h.ri = <<>> THEN R(s, "EINVAL")
      ELSE Let([wh \in {create_whiteout(s, h.ri[1].inode, name)} |->
             R(wh.st, wh.err)])])

\* step 7 of do_rm: the whiteout in the parent's upper directory and its node
RmWhiteout(s, pnode, name) ==
    Let([h \in {handle_upper_inode_locked(s, pnode)} |->
      IF h.err # "OK" THEN R(s, h.err)
      ELSE IF h.ri = <<>> THEN R(s, "EINVAL")
      ELSE
        LET pri == h.ri[1]
        IN Let([wh \in {create_whiteout(s, pri.inode, name)} |->
             IF wh.err # "OK" THEN wh
             ELSE
               LET path == Append(wh.st.nodes[pnode].path, name)
               IN Let([a \in {alloc_inode(wh.st, path)} |->
                    IF a.err # "OK" THEN R(a.st, a.err)
                    ELSE InsertNew(a.st, pnode, name,
                           new_from_real_inode(name, a.ino, path,
                             RealInode(pri.layer, TRUE, wh.node, TRUE, FALSE)))])])])

\* steps 5 to 7 of do_rm
RmNode(s, p, node, name, dir) ==
    Let([up \in {copy_node_up(s, p)} |->
      IF up.err # "OK" THEN up
      ELSE
        LET pnode == up.node
        IN Let([h \in {handle_upper_inode_locked(up.st, pnode)} |->
             Let([in_upper \in {in_upper_layer(up.st, node)} |->
               Let([need_whiteout \in {/\ ~upper_layer_only(up.st, node)
                                       /\ ~(in_upper /\ h.ri # <<>> /\ h.ri[1].opaque)} |->
                 Let([rm \in {IF ~in_upper THEN R(up.st, "OK")
                              ELSE IF h.err # "OK" THEN R(up.st, h.err)
                              ELSE IF h.ri = <<>> THEN R(up.st, "EINVAL")
                              ELSE IF dir THEN LayerRmdir(up.st, h.ri[1].inode, name)
                              ELSE LayerUnlink(up.st, h.ri[1].inode, name)} |->
                   IF rm.err # "OK" THEN rm
                   ELSE
                     Let([s1 \in {remove_inode(remove_child(rm.st, pnode, name),
                                               rm.st.nodes[node].inode,
                                               <<rm.st.nodes[node].path>>)} |->
                       IF need_whiteout THEN RmWhiteout(s1, pnode, name)
                       ELSE R(s1, "OK")])])])])])])

do_rm(s, parent, name, dir) ==
    IF ~s.upper THEN R(s, "EROFS")
    ELSE
      Let([pl \in {lookup_node(s, parent, "")} |->
        IF pl.err # "OK" THEN pl
        ELSE IF pl.st.nodes[pl.node].whiteout THEN R(pl.st, "ENOENT")
        ELSE
          Let([nl \in {lookup_node(pl.st, parent, name)} |->
            LET node == nl.node
            IN IF nl.err # "OK" THEN nl
               ELSE IF nl.st.nodes[node].whiteout THEN R(nl.st, "ENOENT")
               ELSE IF ~dir THEN RmNode(nl.st, pl.node, node, name, dir)
               ELSE
                 Let([ld \in {load_directory(nl.st, node)} |->
                   IF ld.err # "OK" THEN ld
                   ELSE
                     Let([cw \in {count_entries_and_whiteout(ld.st, node)} |->
                       IF stat64(ld.st, node) = "ENOENT"
                       THEN R(ld.st, "ENOENT")
                       ELSE IF stat64(ld.st, node) # "dir"
                       THEN R(ld.st, "ENOTDIR")
                       ELSE IF cw[1] > 0 THEN R(ld.st, "ENOTEMPTY")
                       ELSE
                         Let([e \in {IF cw[2] > 0 /\ in_upper_layer(ld.st, node)
                                     THEN empty_node_directory(ld.st, node)
                                     ELSE R(ld.st, "OK")} |->
                           IF e.err # "OK" THEN e
                           ELSE RmNode(e.st, pl.node, node, name, dir)])])])])])

\* the part of do_rename after the four lookups and the destination checks
RenameNodes(s, parent_node, new_parent_node, src_node, dest, name, new_name) ==
    Let([u1 \in {copy_node_up(s, parent_node)} |->
      IF u1.err # "OK" THEN u1
      ELSE
        Let([u2 \in {copy_node_up(u1.st, new_parent_node)} |->
          IF u2.err # "OK" THEN u2
          ELSE
            Let([u3 \in {copy_node_up(u2.st, src_node)} |->
              IF u3.err # "OK" THEN u3
              ELSE
                Let([need_whiteout \in {~upper_layer_only(u3.st, src_node)} |->
                  LET p_inode == u3.st.nodes[parent_node].real_inodes[1].inode
                  IN LET new_p_inode ==
                             u3.st.nodes[new_parent_node].real_inodes[1].inode
                     IN Let([rn \in {LayerRename(u3.st, p_inode, name, new_p_inode,
                                                 new_name)} |->
                          IF rn.err # "OK" THEN rn
                          ELSE
                            Let([s1 \in {IF dest = 0 THEN rn.st
                                         ELSE remove_inode(rn.st,
                                                           rn.st.nodes[dest].inode,
                                                           <<rn.st.nodes[dest].path>>)} |->
                              Let([s2 \in {remove_inode(
                                               remove_child(s1, parent_node, name),
                                               s1.nodes[src_node].inode,
                                               <<s1.nodes[src_node].path>>)} |->
                                LET s3 == [s2 EXCEPT
                                             !.nodes[src_node].path =
                                                 Append(s2.nodes[new_parent_node].path,
                                                        new_name),
                                             !.nodes[src_node].name = new_name,
                                             !.nodes[src_node].parent = new_parent_node]
                                IN Let([s4 \in {insert_inode(
                                                    insert_child(s3, new_parent_node,
                                                                 new_name, src_node),
                                                    s3.nodes[src_node].inode, src_node)} |->
                                     IF ~need_whiteout THEN R(s4, "OK")
                                     ELSE Let([wh \in {create_whiteout(s4, p_inode, name)} |->
                                            R(wh.st, wh.err)])])])])])])])])])

\* do_rename without its tests of the destination
do_rename_unchecked(s, parent, name, new_parent, new_name) ==
    Let([l1 \in {lookup_node(s, parent, "")} |->
      IF l1.err # "OK" THEN l1
      ELSE
        Let([l2 \in {lookup_node(l1.st, new_parent, "")} |->
          IF l2.err # "OK" THEN l2
          ELSE
            Let([l3 \in {lookup_node(l2.st, parent, name)} |->
              IF l3.err # "OK" THEN l3
              ELSE
                Let([l4 \in {lookup_node_ignore_enoent(l3.st, new_parent,
                                                       new_name)} |->
                  IF l4.err # "OK" THEN l4
                  ELSE RenameNodes(l4.st, l1.node, l2.node, l3.node, l4.node,
                                   name, new_name)])])])])

do_rename(s, parent, name, new_parent, new_name) ==
    Let([l1 \in {lookup_node(s, parent, "")} |->
      IF l1.err # "OK" THEN l1
      ELSE
        Let([l2 \in {lookup_node(l1.st, new_parent, "")} |->
          IF l2.err # "OK" THEN l2
          ELSE
            Let([l3 \in {lookup_node(l2.st, parent, name)} |->
              IF l3.err # "OK" THEN l3
              ELSE
                Let([l4 \in {lookup_node_ignore_enoent(l3.st, new_parent,
                                                       new_name)} |->
                  LET dest == l4.node
                  IN IF l4.err # "OK" THEN l4
                     ELSE IF dest = 0
                     THEN RenameNodes(l4.st, l1.node, l2.node, l3.node, 0,
                                      name, new_name)
                     ELSE IF stat64(l4.st, l3.node) = "ENOENT"
                             \/ stat64(l4.st, dest) = "ENOENT"
                     THEN R(l4.st, "ENOENT")
                     ELSE IF (stat64(l4.st, l3.node) = "dir")
                             # (stat64(l4.st, dest) = "dir")
                     THEN R(l4.st, "EISDIR")
                     ELSE IF stat64(l4.st, dest) # "dir"
                     THEN RenameNodes(l4.st, l1.node, l2.node, l3.node, dest,
                                      name, new_name)
                     ELSE
                       Let([cu \in {copy_directory_up(l4.st, dest)} |->
                         IF cu.err # "OK" THEN cu
                         ELSE IF count_entries_and_whiteout(cu.st, dest)[1] > 0
                         THEN R(cu.st, "ENOTEMPTY")
                         ELSE RenameNodes(cu.st, l1.node, l2.node, l3.node,
                                          dest, name, new_name)])])])])])

\* the part of do_link after the copy-ups: the test of the new name, the
\* link in the layer and the registration of the source under the new name
LinkNodes(s, src_node, new_parent, name) ==
    Let([lk \in {lookup_node_ignore_enoent(s, s.nodes[new_parent].inode, name)} |->
      IF lk.err # "OK" THEN lk
      ELSE IF lk.node # 0 /\ ~lk.st.nodes[lk.node].whiteout THEN R(lk.st, "EEXIST")
      ELSE
        Let([h \in {handle_upper_inode_locked(lk.st, new_parent)} |->
          IF h.err # "OK" THEN R(lk.st, h.err)
          ELSE IF h.ri = <<>> THEN R(lk.st, "EINVAL")
          ELSE
            Let([s1 \in {IF lk.node # 0 /\ in_upper_layer(lk.st, lk.node)
                         THEN delete_whiteout(lk.st, h.ri[1].inode, name).st
                         ELSE lk.st} |->
              Let([ln \in {LayerLink(s1, s.nodes[src_node].real_inodes[1].inode,
                                     h.ri[1].inode, name)} |->
                IF ln.err # "OK" THEN ln
                ELSE R(insert_child(insert_inode(ln.st, ln.st.nodes[src_node].inode,
                                                 src_node),
                                    new_parent, name, src_node), "OK")])])])])

\* do_link: the source and the new parent are copied up before the new name
\* is looked at
do_link(s, src_node, new_parent, name) ==
    IF ~s.upper THEN R(s, "EROFS")
    ELSE IF s.nodes[src_node].whiteout \/ s.nodes[new_parent].whiteout
    THEN R(s, "ENOENT")
    ELSE IF stat64(s, src_node) = "ENOENT" THEN R(s, "ENOENT")
    ELSE IF stat64(s, src_node) = "dir" THEN R(s, "EPERM")
    ELSE
      Let([u1 \in {copy_node_up(s, src_node)} |->
        IF u1.err # "OK" THEN u1
        ELSE
          Let([u2 \in {copy_node_up(u1.st, new_parent)} |->
            IF u2.err # "OK" THEN u2
            ELSE LinkNodes(u2.st, src_node, new_parent, name)])])

\* get_data without a handle (no_open): readonly is FALSE for the flags
\* O_APPEND, O_CREAT, O_TRUNC, O_RDWR, O_WRONLY
get_data(s, inode, readonly) ==
    Let([l \in {lookup_node(s, inode, "")} |->
      IF l.err # "OK" THEN l
      ELSE IF l.st.nodes[l.node].whiteout THEN R(l.st, "ENOENT")
      ELSE IF readonly THEN RN(l.st, l.node)
      ELSE IF ~l.st.upper THEN R(l.st, "EROFS")
      ELSE Let([up \in {copy_node_up(l.st, l.node)} |->
             IF up.err # "OK" THEN up ELSE RN(up.st, l.node)])])

\* what do_readdir and do_readdirplus collect before they emit: ".", "..",
\* and the children whose whiteout flag is off, as <<name, node>>
\* DirChildrens without the test of the whiteout flag
DirChildrens_unfiltered(s, n) ==
    Let([names \in {ChildNames(s, n)} |->
      Let([parent_node \in {IF s.nodes[n].parent # 0 THEN s.nodes[n].parent
                            ELSE s.inodes[RootInode]} |->
        <<<<".", n>>, <<"..", parent_node>>>> \o
        [i \in 1..Len(names) |-> <<names[i], s.nodes[n].childrens[names[i]]>>]])])

DirChildrens(s, n) ==
    Let([names \in {SelectSeq(ChildNames(s, n),
                              LAMBDA x : ~s.nodes[s.nodes[n].childrens[x]].whiteout)} |->
      Let([parent_node \in {IF s.nodes[n].parent # 0 THEN s.nodes[n].parent
                            ELSE s.inodes[RootInode]} |->
        <<<<".", n>>, <<"..", parent_node>>>> \o
        [i \in 1..Len(names) |-> <<names[i], s.nodes[n].childrens[names[i]]>>]])])

DirEntry(s, e, index) ==
    [name |-> e[1], inode |-> s.nodes[e[2]].inode, node |-> e[2],
     kind |-> stat64(s, e[2]), offset |-> index + 1]

\* the loop that emits: every entry for do_readdir, the entries at
\* index >= offset, each with its lookup count raised, for do_readdirplus
RECURSIVE EmitLoop(_, _, _, _, _, _)
EmitLoop(s, cs, i, offset, plus, d) ==
    IF i > Len(cs) THEN [st |-> s, err |-> "OK", node |-> 0, d |-> d]
    ELSE IF plus /\ i - 1 < offset THEN EmitLoop(s, cs, i + 1, offset, plus, d)
    ELSE IF stat64(s, cs[i][2]) = "ENOENT"
    THEN [st |-> s, err |-> "ENOENT", node |-> 0, d |-> <<>>]
    ELSE EmitLoop(IF plus THEN [s EXCEPT !.nodes[cs[i][2]].lookups = @ + 1]
                  ELSE s,
                  cs, i + 1, offset, plus, Append(d, DirEntry(s, cs[i], i - 1)))

ReadDir(s, inode, offset, plus) ==
    Let([l \in {lookup_node(s, inode, "")} |->
      LET none == [st |-> s, err |-> "OK", node |-> 0, d |-> <<>>]
      IN IF l.err # "OK" THEN [none EXCEPT !.st = l.st, !.err = l.err]
         ELSE IF stat64(l.st, l.node) = "ENOENT"
         THEN [none EXCEPT !.st = l.st, !.err = "ENOENT"]
         ELSE IF stat64(l.st, l.node) # "dir"
         THEN [none EXCEPT !.st = l.st, !.err = "ENOTDIR"]
         ELSE
           Let([ld \in {load_directory(l.st, l.node)} |->
             IF ld.err # "OK" THEN [none EXCEPT !.st = ld.st, !.err = ld.err]
             ELSE IF offset >= Len(DirChildrens(ld.st, l.node))
             THEN [none EXCEPT !.st = ld.st]
             ELSE EmitLoop(ld.st, DirChildrens(ld.st, l.node), 1, offset, plus,
                           <<>>)])])

do_readdir(s, inode, offset) == ReadDir(s, inode, offset, FALSE)

do_readdirplus(s, inode, offset) == ReadDir(s, inode, offset, TRUE)

---------------------------------------------------------------------------
(* The state as a record, and what an action commits *)

\* the orders in which a hash map of names may be iterated; the order shows
\* in what readdir emits, and the other requests are run with MapOrder
NameOrders == {<<"a", "b">>, <<"b", "a">>}
MapOrder == <<"a", "b">>

St(ord) ==
    [nodes |-> nodes, inodes |-> inodes, deleted |-> deleted,
     path_mapping |-> path_mapping, nlinks |-> nlinks,
     next_inode |-> next_inode, inode_limit |-> inode_limit, objs |-> objs,
     upper |-> upper_layer,
     ord |-> ord, full |-> FALSE]

RECURSIVE Closure(_, _)
Closure(s, live) ==
    Let([more \in {live \cup UNION {Range(s.nodes[n].childrens) : n \in live}} |->
      IF more = live THEN live ELSE Closure(s, more)])

\* Arc / Weak: an OverlayInode nothing holds is dropped, with its RealInodes;
\* a layer inode that is unlinked and that no RealInode holds is gone.
Collect(s) ==
    Let([live \in {Closure(s, Range(s.inodes) \cup Range(s.deleted))} |->
      LET kept == [n \in live |->
                     [s.nodes[n] EXCEPT !.parent = IF @ \in live THEN @ ELSE 0]]
      IN LET held == UNION {{kept[n].real_inodes[i].inode :
                                i \in 1..Len(kept[n].real_inodes)} : n \in live}
         IN [s EXCEPT !.nodes = kept,
                      !.objs = [o \in {x \in DOMAIN s.objs :
                                          s.objs[x].linked \/ x \in held} |->
                                   s.objs[o]]]])

Commit(s0) ==
    \E s \in {Collect(s0)} :
      /\ ~s0.full
      /\ served' = served + 1
      /\ UNCHANGED <<tasks, copy>>
      /\ nodes' = s.nodes
      /\ inodes' = s.inodes
      /\ deleted' = s.deleted
      /\ path_mapping' = s.path_mapping
      /\ nlinks' = s.nlinks
      /\ next_inode' = s.next_inode
      /\ inode_limit' = s.inode_limit
      /\ objs' = s.objs
      /\ upper_layer' = s.upper

\* the record of a request and of what it returned: the errno, the node it
\* made or found (0: none), the directory entries it emitted, what the name
\* it was given stood for when it came (see Found) and the inode number that
\* name had then (src, 0: none); was: for a rename, what its source and its
\* destination were when it came, for an unlink and a rmdir, what the entry
\* was (see RenameCase), for an unlink also whether it follows the link of
\* the entry (see JustLinked), for a link see LinkCase, for a forget the
\* lookup count that the node had (see LookupsOf)
Req(op, ino, name, err) ==
    [op |-> op, ino |-> ino, name |-> name, err |-> err, node |-> 0,
     d |-> <<>>, arg |-> 0, to |-> "", found |-> "none", src |-> 0,
     was |-> <<>>]

---------------------------------------------------------------------------
(* The layers at mount time *)

RootsOnly(upper) ==
    IF upper
    THEN (UpperRoot :> Obj("upper", "dir", 0, "")) @@
         (LowerRoot :> Obj("lower", "dir", 0, ""))
    ELSE (LowerRoot :> Obj("lower", "dir", 0, ""))

\* lower /a (regular)
LayoutFile == (3 :> LowerObj("reg", LowerRoot, "a"))
\* lower /a (directory) with /a/a (regular)
LayoutDir == (3 :> LowerObj("dir", LowerRoot, "a")) @@
             (4 :> LowerObj("reg", 3, "a"))
\* lower /a (symbolic link)
LayoutSymlink == (3 :> LowerObj("lnk", LowerRoot, "a"))
\* lower /a (regular), masked by a whiteout /a in the upper layer
LayoutWhiteout == (3 :> LowerObj("reg", LowerRoot, "a")) @@
                  (4 :> Obj("upper", "wh", UpperRoot, "a"))

Layouts(upper) ==
    IF upper THEN {LayoutFile, LayoutDir, LayoutWhiteout}
    ELSE {LayoutFile, LayoutDir}

\* OverlayFs::import
import(upper, layout, ord) ==
    Let([ris \in {(IF upper
                   THEN <<RealInode("upper", TRUE, UpperRoot, FALSE, FALSE)>>
                   ELSE <<>>)
                  \o <<RealInode("lower", FALSE, LowerRoot, FALSE, FALSE)>>} |->
      Let([root \in {[inode |-> RootInode, path |-> <<>>, name |-> "", parent |-> 0,
                      real_inodes |-> ris, lookups |-> 2, whiteout |-> FALSE,
                      loaded |-> FALSE, childrens |-> <<>>]} |->
        Let([s0 \in {[nodes |-> (1 :> root), inodes |-> <<>>, deleted |-> <<>>,
                      path_mapping |-> <<>>, nlinks |-> <<>>, next_inode |-> 1,
                      inode_limit |-> InodeLimit,
                      objs |-> RootsOnly(upper) @@ layout, upper |-> upper,
                      ord |-> ord, full |-> FALSE]} |->
          load_directory(insert_inode(s0, RootInode, 1), 1).st])])])

Init ==
    \E upper \in BOOLEAN : \E layout \in Layouts(upper) : \E ord \in NameOrders :
      \E s \in {import(upper, layout, ord)} :
        /\ nodes = s.nodes
        /\ inodes = s.inodes
        /\ deleted = s.deleted
        /\ path_mapping = s.path_mapping
        /\ nlinks = s.nlinks
        /\ next_inode = s.next_inode
        /\ inode_limit = s.inode_limit
        /\ objs = s.objs
        /\ upper_layer = upper
        /\ last = Req("import", 0, "", "OK")
        /\ served = 0
        /\ tasks = <<>>
        /\ copy = <<>>

---------------------------------------------------------------------------
(* Requests.  A request names its inodes by number, as FUSE does, and any   *)
(* number the store knows may come; ord is the order in which the hash maps *)
(* happen to be iterated while the request runs.                            *)

KnownInos == (DOMAIN inodes) \cup (DOMAIN deleted)
ReqNames == Names \cup {""}
Counts == 1..(MaxLookups + 1)
Offsets == 0..2

\* the budget of requests of a run
Budget == served < MaxRequests

LookupsBounded(s) ==
    \A n \in DOMAIN s.nodes : s.nodes[n].lookups <= MaxLookups + 1

\* what a name under the directory ino stands for: nothing, a whiteout node,
\* a node of the lower layers only, of the upper layer only, or of both
Found(ino, name) ==
    Let([l \in {lookup_node(St(MapOrder), ino, name)} |->
      IF l.err # "OK" THEN "none"
      ELSE IF l.st.nodes[l.node].whiteout THEN "whiteout"
      ELSE IF ~in_upper_layer(l.st, l.node) THEN "lower"
      ELSE IF upper_layer_only(l.st, l.node) THEN "upper"
      ELSE "merged"])

\* the inode number a name under the directory ino resolves to, 0 if none
FoundIno(ino, name) ==
    Let([l \in {lookup_node(St(MapOrder), ino, name)} |->
      IF l.err # "OK" THEN 0 ELSE l.st.nodes[l.node].inode])

\* the children of the directory node n that are no whiteouts, neither by
\* their flag nor by their entry in the layers
VisibleNames(s, n) ==
    {name \in DOMAIN s.nodes[n].childrens :
       /\ ~s.nodes[s.nodes[n].childrens[name]].whiteout
       /\ stat64(s, s.nodes[n].childrens[name]) \notin {"ENOENT", "wh"}}

\* the children map of the node n has a child for every entry that its
\* directories of the upper layer hold
UpperEntriesKnown(s, n) ==
    \A i \in 1..Len(s.nodes[n].real_inodes) :
      s.nodes[n].real_inodes[i].in_upper_layer =>
        \A o \in LayerEntries(s, s.nodes[n].real_inodes[i].inode) :
          s.objs[o].name \in DOMAIN s.nodes[n].childrens

\* the kind of the node a name resolves to, "none" for no node or a whiteout
KindAt(ino, name) ==
    Let([l \in {lookup_node(St(MapOrder), ino, name)} |->
      IF l.err # "OK" THEN "none"
      ELSE IF l.st.nodes[l.node].whiteout THEN "none"
      ELSE IF stat64(l.st, l.node) \in {"ENOENT", "wh"} THEN "none"
      ELSE stat64(l.st, l.node)])

\* the path of the node a name resolves to, the inode number of the node its
\* parent field points to (0: none), where its layer entries are, each as
\* <<inode of the layer, directory, name>>, and the names it has in the
\* children maps of the active directories, each as <<inode number of the
\* directory, name>>
NodeAt(ino, name) ==
    Let([l \in {lookup_node(St(MapOrder), ino, name)} |->
      IF l.err # "OK" THEN [path |-> <<>>, parent |-> 0, entries |-> {},
                            names |-> {}]
      ELSE [path |-> l.st.nodes[l.node].path,
            parent |-> IF l.st.nodes[l.node].parent = 0 THEN 0
                       ELSE l.st.nodes[l.st.nodes[l.node].parent].inode,
            entries |-> {<<ri.inode, l.st.objs[ri.inode].parent,
                           l.st.objs[ri.inode].name>> :
                           ri \in {x \in Range(l.st.nodes[l.node].real_inodes) :
                                      x.inode \in DOMAIN l.st.objs}},
            names |-> {dx \in {<<l.st.nodes[d].inode, x>> :
                                  d \in DOMAIN l.st.nodes, x \in Names} :
                         /\ dx[1] \in DOMAIN l.st.inodes
                         /\ child(l.st, l.st.inodes[dx[1]], dx[2]) = l.node}]])

\* what a rename meets: the kind of its source and of its destination,
\* whether the destination, once loaded, has a child that is no whiteout, how
\* many children it has that are whiteouts, whether its children map knows
\* the entries of its upper directory, and the path, the parent and the layer
\* entries of the source
RenameCase(parent, name, new_parent, new_name) ==
    Let([l \in {lookup_node(St(MapOrder), FoundIno(new_parent, new_name), "")} |->
      [skind |-> KindAt(parent, name),
       dkind |-> KindAt(new_parent, new_name),
       dfull |-> l.err = "OK" /\ VisibleNames(l.st, l.node) # {},
       dwh |-> IF l.err # "OK" THEN 0
               ELSE count_entries_and_whiteout(l.st, l.node)[2],
       dsync |-> l.err = "OK" /\ UpperEntriesKnown(l.st, l.node),
       source |-> NodeAt(parent, name)]])

Lookup ==
    /\ Budget
    /\ \E parent \in KnownInos, name \in ReqNames :
         \E r \in {do_lookup(St(MapOrder), parent, name)} :
           /\ LookupsBounded(r.st)
           /\ Commit(r.st)
           /\ last' = [Req("lookup", parent, name, r.err) EXCEPT !.node = r.node]

\* the lookup count of the node a number stands for, -1 if it stands for none
LookupsOf(inode) ==
    IF get_all_inode(St(MapOrder), inode) = 0 THEN -1
    ELSE nodes[get_all_inode(St(MapOrder), inode)].lookups

\* the numbers a forget may name: those the store knows, 0, and one that the
\* store does not know
ForgetInos == KnownInos \cup {0, InodeLimit}

Forget ==
    /\ Budget
    /\ \E inode \in ForgetInos, count \in Counts :
         /\ inode \in KnownInos \/ count = 1
         /\ Commit(forget_one(St(MapOrder), inode, count))
         /\ last' = [Req("forget", inode, "", "OK")
                       EXCEPT !.arg = count, !.was = LookupsOf(inode)]

Mkdir ==
    /\ Budget
    /\ \E parent \in KnownInos, name \in Names :
         \E l \in {lookup_node(St(MapOrder), parent, "")} :
         \E r \in {IF l.err # "OK" THEN l ELSE do_mkdir(l.st, l.node, name)} :
           /\ Commit(r.st)
           /\ last' = [Req("mkdir", parent, name, r.err)
                         EXCEPT !.node = r.node,
                                !.found = Found(parent, name)]

Create ==
    /\ Budget
    /\ \E parent \in KnownInos, name \in Names :
         \E l \in {lookup_node(St(MapOrder), parent, "")} :
         \E r \in {IF l.err # "OK" THEN l ELSE do_create(l.st, l.node, name)} :
           /\ Commit(r.st)
           /\ last' = [Req("create", parent, name, r.err)
                         EXCEPT !.node = r.node,
                                !.found = Found(parent, name)]

Mknod ==
    /\ Budget
    /\ \E parent \in KnownInos, name \in Names :
         \E l \in {lookup_node(St(MapOrder), parent, "")} :
         \E r \in {IF l.err # "OK" THEN l ELSE do_mknod(l.st, l.node, name)} :
           /\ Commit(r.st)
           /\ last' = [Req("mknod", parent, name, r.err)
                         EXCEPT !.node = r.node,
                                !.found = Found(parent, name)]

Symlink ==
    /\ Budget
    /\ \E parent \in KnownInos, name \in Names :
         \E l \in {lookup_node(St(MapOrder), parent, "")} :
         \E r \in {IF l.err # "OK" THEN l ELSE do_symlink(l.st, l.node, name)} :
           /\ Commit(r.st)
           /\ last' = [Req("symlink", parent, name, r.err)
                         EXCEPT !.node = r.node,
                                !.found = Found(parent, name)]

\* the request before this one was a link that succeeded on a node the store
\* counted a link of, and the name is one of the names of that node
JustLinked(parent, name) ==
    /\ last.op = "link"
    /\ last.err = "OK"
    /\ last.src = FoundIno(parent, name)
    /\ last.was.nlink >= 1

Unlink ==
    /\ Budget
    /\ \E parent \in KnownInos, name \in Names :
         \E r \in {do_rm(St(MapOrder), parent, name, FALSE)} :
           /\ Commit(r.st)
           /\ last' = [Req("unlink", parent, name, r.err)
                         EXCEPT !.found = Found(parent, name),
                                !.src = FoundIno(parent, name),
                                !.was = RenameCase(parent, name, parent, name)
                                        @@ [linked |-> JustLinked(parent, name)]]

Rmdir ==
    /\ Budget
    /\ \E parent \in KnownInos, name \in Names :
         \E r \in {do_rm(St(MapOrder), parent, name, TRUE)} :
           /\ Commit(r.st)
           /\ last' = [Req("rmdir", parent, name, r.err)
                         EXCEPT !.found = Found(parent, name),
                                !.src = FoundIno(parent, name),
                                !.was = RenameCase(parent, name, parent, name)]

\* what a link meets: the kind of its source, of the new name and of the
\* directory of the new name, the nlink
\* of the source in the store, and the path and the names of the source
LinkCase(ino, new_parent, name) ==
    [skind |-> KindAt(ino, ""),
     dkind |-> KindAt(new_parent, name),
     pkind |-> KindAt(new_parent, ""),
     nlink |-> IF ino \in DOMAIN nlinks THEN nlinks[ino] ELSE 0,
     source |-> NodeAt(ino, "")]

Link ==
    /\ Budget
    /\ \E ino \in KnownInos, new_parent \in KnownInos, name \in Names :
         \E l1 \in {lookup_node(St(MapOrder), ino, "")} :
         \E l2 \in {IF l1.err # "OK" THEN l1
                     ELSE lookup_node(l1.st, new_parent, "")} :
         \E r \in {IF l2.err # "OK" THEN l2
                    ELSE do_link(l2.st, l1.node, l2.node, name)} :
           /\ Commit(r.st)
           /\ last' = [Req("link", ino, "", r.err)
                         EXCEPT !.arg = new_parent, !.to = name,
                                !.found = Found(new_parent, name),
                                !.src = ino,
                                !.was = LinkCase(ino, new_parent, name)]

Rename ==
    /\ Budget
    /\ \E parent \in KnownInos, name \in Names, new_parent \in KnownInos,
          new_name \in Names :
         \E r \in {do_rename(St(MapOrder), parent, name, new_parent, new_name)} :
           /\ Commit(r.st)
           /\ last' = [Req("rename", parent, name, r.err)
                         EXCEPT !.arg = new_parent, !.to = new_name,
                                !.found = Found(parent, name),
                                !.src = FoundIno(parent, name),
                                !.was = RenameCase(parent, name, new_parent,
                                                   new_name)]

\* open for writing
Open ==
    /\ Budget
    /\ \E inode \in KnownInos :
         \E r \in {get_data(St(MapOrder), inode, FALSE)} :
           /\ Commit(r.st)
           /\ last' = [Req("open", inode, "", r.err) EXCEPT !.node = r.node]

Readdir ==
    /\ Budget
    /\ \E inode \in KnownInos, offset \in Offsets, ord \in NameOrders :
         \E r \in {do_readdir(St(ord), inode, offset)} :
           /\ Commit(r.st)
           /\ last' = [Req("readdir", inode, "", r.err)
                         EXCEPT !.arg = offset, !.d = r.d]

Readdirplus ==
    /\ Budget
    /\ \E inode \in KnownInos, offset \in Offsets, ord \in NameOrders :
         \E r \in {do_readdirplus(St(ord), inode, offset)} :
           /\ LookupsBounded(r.st)
           /\ Commit(r.st)
           /\ last' = [Req("readdirplus", inode, "", r.err)
                         EXCEPT !.arg = offset, !.d = r.d]

Next ==
    \/ Lookup
    \/ Forget
    \/ Mkdir
    \/ Create
    \/ Mknod
    \/ Symlink
    \/ Unlink
    \/ Rmdir
    \/ Link
    \/ Rename
    \/ Open
    \/ Readdir
    \/ Readdirplus

Spec == Init /\ [][Next]_vars

---------------------------------------------------------------------------
(* Concurrent copy-up.  Two tasks run copy_node_up, each on a node that is  *)
(* in the lower layer only; a step is what a task does between two awaits   *)
(* on a lock of real_inodes, and a task's frames are its calls in progress  *)
(* (copy_node_up, create_upper_dir of the node and of its ancestors,        *)
(* copy_symlink_up, copy_regfile_up).                                       *)

TaskIds == {1, 2}

\* st: the stat the call has taken from getattr_helper, <<>> before it has
Frame(op, node) ==
    [op |-> op, node |-> node, pc |-> "check", ri |-> <<>>, st |-> <<>>]

Top(t) == Head(tasks[t].stack)

Running(t) == tasks[t].stack # <<>>

\* return from the call on top: Ok goes back to the caller, which goes on
\* from where it was; an Err goes up through every `?` and ends the task
Return(t, err) ==
    IF err # "OK"
    THEN [tasks EXCEPT ![t].stack = <<>>, ![t].result = err]
    ELSE [tasks EXCEPT ![t].stack = Tail(@),
                       ![t].result = IF Len(tasks[t].stack) = 1 THEN "OK"
                                     ELSE ""]

Goto(t, label) ==
    [tasks EXCEPT ![t].stack = <<[Top(t) EXCEPT !.pc = label]>> \o Tail(@)]

UNCHANGED_store ==
    UNCHANGED <<inodes, deleted, path_mapping, nlinks, next_inode, inode_limit,
                upper_layer, last, served, copy>>

\* copy_node_up: the test of in_upper_layer, then the call the kind asks for
CopyNodeUpStep(t) ==
    /\ Running(t)
    /\ Top(t).op = "copy_node_up"
    /\ \E s \in {St(MapOrder)} :
         \E n \in {Top(t).node} :
           \E callee \in {IF stat64(s, n) = "dir" THEN "create_upper_dir"
                          ELSE IF stat64(s, n) = "lnk" THEN "copy_symlink_up"
                          ELSE "copy_regfile_up"} :
             tasks' = IF in_upper_layer(s, n) THEN Return(t, "OK")
                      ELSE IF stat64(s, n) = "ENOENT" THEN Return(t, "ENOENT")
                      ELSE IF stat64(s, n) \notin {"dir", "lnk", "reg"}
                      THEN Return(t, "EINVAL")
                      ELSE [tasks EXCEPT ![t].stack =
                                            <<Frame(callee, n)>> \o Tail(@)]
    /\ UNCHANGED <<nodes, objs>>
    /\ UNCHANGED_store

\* create_upper_dir up to its test of the parent
CreateUpperDirCheck(t) ==
    /\ Running(t)
    /\ Top(t).op = "create_upper_dir"
    /\ Top(t).pc = "check"
    /\ \E s \in {St(MapOrder)} :
         \E n \in {Top(t).node} :
           \E kind \in {RiKind(s, nodes[n].real_inodes[1])} :
             tasks' = IF kind = "ENOENT" THEN Return(t, "ENOENT")
                      ELSE IF kind # "dir" THEN Return(t, "ENOTDIR")
                      ELSE IF in_upper_layer(s, n) THEN Return(t, "OK")
                      ELSE IF nodes[n].parent = 0 THEN Return(t, "EIO")
                      ELSE [Goto(t, "parent") EXCEPT
                              ![t].stack[1].st = CopyUpStat(s, n)]
    /\ UNCHANGED <<nodes, objs>>
    /\ UNCHANGED_store

\* copy_symlink_up and copy_regfile_up up to their test of the parent
CopyFileUpCheck(t) ==
    /\ Running(t)
    /\ Top(t).op \in {"copy_symlink_up", "copy_regfile_up"}
    /\ Top(t).pc = "check"
    /\ \E s \in {St(MapOrder)} :
         \E n \in {Top(t).node} :
           tasks' = IF in_upper_layer(s, n) THEN Return(t, "OK")
                    ELSE IF nodes[n].parent = 0 THEN Return(t, "EIO")
                    ELSE IF RiKind(s, nodes[n].real_inodes[1]) = "ENOENT"
                    THEN Return(t, "ENOENT")
                    ELSE [Goto(t, "parent") EXCEPT
                            ![t].stack[1].st = CopyUpStat(s, n)]
    /\ UNCHANGED <<nodes, objs>>
    /\ UNCHANGED_store

\* `if !pnode.in_upper_layer() { pnode.create_upper_dir() }`
EnsureParentUpper(t) ==
    /\ Running(t)
    /\ Top(t).pc = "parent"
    /\ tasks' = IF in_upper_layer(St(MapOrder), nodes[Top(t).node].parent)
                THEN Goto(t, "create")
                ELSE [Goto(t, "create") EXCEPT ![t].stack =
                        <<Frame("create_upper_dir", nodes[Top(t).node].parent)>>
                        \o @]
    /\ UNCHANGED <<nodes, objs>>
    /\ UNCHANGED_store

\* the entry is made in the parent's upper directory, under the parent's
\* lock; exclusive: whether the layer's helper refuses a name that exists
\* (mkdir and symlink do; create, as open(2) with O_CREAT, may open it)
MakeUpperEntry(t, kind, none_err, exclusive) ==
    \E s \in {St(MapOrder)} :
      \E n \in {Top(t).node} :
        LET p == nodes[n].parent
        IN \E h \in {handle_upper_inode_locked(s, p)} :
             \E old \in {IF h.err = "OK" /\ h.ri # <<>>
                         THEN LayerLookup(s, h.ri[1].inode, nodes[n].name) ELSE 0} :
               \E r \in {IF ~exclusive /\ old # 0 /\ objs[old].kind = kind
                         THEN RN(s, old)
                         ELSE CreateInParentUpper(s, p, nodes[n].name, kind, none_err,
                                                  Top(t).st)} :
                 /\ ~r.st.full
                 /\ objs' = r.st.objs
                 /\ tasks' = IF r.err # "OK" THEN Return(t, r.err)
                             ELSE [Goto(t, "add") EXCEPT
                                     ![t].stack[1].ri =
                                         <<RealInode("upper", TRUE, r.node, FALSE, FALSE)>>,
                                     ![t].made = @ \cup {n}]
                 /\ UNCHANGED nodes
                 /\ UNCHANGED_store

CreateUpperDirMkdir(t) ==
    /\ Running(t)
    /\ Top(t).op = "create_upper_dir"
    /\ Top(t).pc = "create"
    /\ MakeUpperEntry(t, "dir", "EINVAL", TRUE)

CopySymlinkUpSymlink(t) ==
    /\ Running(t)
    /\ Top(t).op = "copy_symlink_up"
    /\ Top(t).pc = "create"
    /\ MakeUpperEntry(t, "lnk", "EROFS", TRUE)

CopyRegfileUpCreate(t) ==
    /\ Running(t)
    /\ Top(t).op = "copy_regfile_up"
    /\ Top(t).pc = "create"
    /\ \E exclusive \in BOOLEAN : MakeUpperEntry(t, "reg", "EINVAL", exclusive)

\* add_upper_inode of the RealInode the task has made, and the return
AddUpperInode(t) ==
    /\ Running(t)
    /\ Top(t).pc = "add"
    /\ nodes' = add_upper_inode(St(MapOrder), Top(t).node, Top(t).ri[1],
                                Top(t).op # "create_upper_dir").nodes
    /\ tasks' = Return(t, "OK")
    /\ UNCHANGED objs
    /\ UNCHANGED_store

CopyUpLayouts == {LayoutFile, LayoutDir, LayoutSymlink}

\* the nodes that are in lower layers only
LowerOnlyNodes(s) ==
    {n \in DOMAIN s.nodes : ~s.nodes[n].whiteout /\ ~in_upper_layer(s, n)}

\* mounted, with the directory /a (if any) loaded, and two tasks that are
\* about to call copy_node_up
InitCopyUp ==
    \E layout \in CopyUpLayouts :
      \E s \in {lookup_node(import(TRUE, layout, MapOrder), 2, "").st} :
        /\ nodes = s.nodes
        /\ inodes = s.inodes
        /\ deleted = s.deleted
        /\ path_mapping = s.path_mapping
        /\ nlinks = s.nlinks
        /\ next_inode = s.next_inode
        /\ inode_limit = s.inode_limit
        /\ objs = s.objs
        /\ upper_layer = TRUE
        /\ last = Req("import", 0, "", "OK")
        /\ served = 0
        /\ copy = <<>>
        /\ \E target \in [TaskIds -> LowerOnlyNodes(s)] :
              tasks = [t \in TaskIds |->
                         [target |-> target[t],
                          stack |-> <<Frame("copy_node_up", target[t])>>,
                          result |-> "", made |-> {}]]

NextCopyUp ==
    \E t \in TaskIds :
        \/ CopyNodeUpStep(t)
        \/ CreateUpperDirCheck(t)
        \/ CopyFileUpCheck(t)
        \/ EnsureParentUpper(t)
        \/ CreateUpperDirMkdir(t)
        \/ CopySymlinkUpSymlink(t)
        \/ CopyRegfileUpCreate(t)
        \/ AddUpperInode(t)

SpecCopyUp == InitCopyUp /\ [][NextCopyUp]_vars

---------------------------------------------------------------------------
(* The data copy of copy_regfile_up: the loop that reads the lower file in  *)
(* chunks and writes each chunk to the file made in the upper layer.  A     *)
(* file is the sequence of its bytes.                                       *)

\* `let size = 4 * 1024 * 1024`, scaled down
ChunkSize == 2
MaxFileLen == 5
Bytes == {0, 1}

RECURSIVE Files(_)
Files(len) ==
    IF len = 0 THEN {<<>>}
    ELSE Files(len - 1) \cup
         {Append(f, b) : f \in {g \in Files(len - 1) : Len(g) = len - 1},
                         b \in Bytes}

\* pread: the bytes of the file from offset on, at most size of them
ReadAt(file, offset, size) ==
    IF offset >= Len(file) THEN <<>>
    ELSE SubSeq(file, offset + 1,
                IF Len(file) < offset + size THEN Len(file) ELSE offset + size)

\* pwrite: data laid over the file at offset, a hole before it reads as zeros
WriteAt(file, offset, data) ==
    LET len == IF offset + Len(data) > Len(file) THEN offset + Len(data)
               ELSE Len(file)
    IN [i \in 1..len |->
          IF i > offset /\ i <= offset + Len(data) THEN data[i - offset]
          ELSE IF i <= Len(file) THEN file[i]
          ELSE 0]

\* `offset += ret.written` with the advance left out
NextOffset_stuck(offset, written) ==
    offset

\* `offset += ret.written as usize`
NextOffset(offset, written) ==
    offset + written

\* `lower_layer.read(ctx, lower_inode, lower_handle, offset, size)`, and the
\* break on an empty read; a read may return fewer bytes than it was asked
CopyRead ==
    /\ copy # <<>>
    /\ copy.pc = "read"
    /\ \E size \in 1..ChunkSize :
         \E data \in {ReadAt(copy.lower, copy.offset, size)} :
           copy' = IF Len(data) = 0
                   THEN [copy EXCEPT !.pc = "release"]
                   ELSE [copy EXCEPT !.pc = "write", !.data = data]
    /\ UNCHANGED <<nodes, objs, tasks, inodes, deleted, path_mapping, nlinks,
                   next_inode, inode_limit, upper_layer, last, served>>

\* `ri.layer.write(ctx, ri.inode, u_handle, offset, &ret.data)` that reports
\* every byte written, and the advance of offset
CopyWrite ==
    /\ copy # <<>>
    /\ copy.pc = "write"
    /\ copy' = [copy EXCEPT
                  !.pc = "read",
                  !.upper = WriteAt(@, copy.offset, copy.data),
                  !.offset = NextOffset(@, Len(copy.data)),
                  !.writes = Append(@, [offset |-> copy.offset,
                                        written |-> copy.written]),
                  !.written = @ + Len(copy.data),
                  !.data = <<>>]
    /\ UNCHANGED <<nodes, objs, tasks, inodes, deleted, path_mapping, nlinks,
                   next_inode, inode_limit, upper_layer, last, served>>

\* a write that reports fewer bytes: `assert_eq!(ret.written as usize, len)`
CopyWriteShort ==
    /\ copy # <<>>
    /\ copy.pc = "write"
    /\ \E written \in 0..(Len(copy.data) - 1) :
         copy' = [copy EXCEPT
                    !.pc = "panic",
                    !.upper = WriteAt(@, copy.offset,
                                      SubSeq(copy.data, 1, written))]
    /\ UNCHANGED <<nodes, objs, tasks, inodes, deleted, path_mapping, nlinks,
                   next_inode, inode_limit, upper_layer, last, served>>

\* after the loop: release of the upper handle, add_upper_inode, release of
\* the lower handle, Ok
CopyRelease ==
    /\ copy # <<>>
    /\ copy.pc = "release"
    /\ copy' = [copy EXCEPT !.pc = "done"]
    /\ UNCHANGED <<nodes, objs, tasks, inodes, deleted, path_mapping, nlinks,
                   next_inode, inode_limit, upper_layer, last, served>>

\* the lower file /a of any content, its upper file just created and empty
InitCopyLoop ==
    \E s \in {import(TRUE, LayoutFile, MapOrder)} :
      /\ nodes = s.nodes
      /\ inodes = s.inodes
      /\ deleted = s.deleted
      /\ path_mapping = s.path_mapping
      /\ nlinks = s.nlinks
      /\ next_inode = s.next_inode
      /\ inode_limit = s.inode_limit
      /\ objs = s.objs
      /\ upper_layer = TRUE
      /\ last = Req("import", 0, "", "OK")
      /\ served = 0
      /\ tasks = <<>>
      /\ \E lower \in Files(MaxFileLen) :
           copy = [lower |-> lower, upper |-> <<>>, offset |-> 0,
                   data |-> <<>>, pc |-> "read", writes |-> <<>>,
                   written |-> 0]

NextCopyLoop ==
    \/ CopyRead
    \/ CopyWrite
    \/ CopyWriteShort
    \/ CopyRelease

\* the task that runs the loop is polled until it completes
SpecCopyLoop == InitCopyLoop /\ [][NextCopyLoop]_vars /\ WF_vars(NextCopyLoop)

---------------------------------------------------------------------------
(* The properties *)

\* the nodes that can be reached from the root through the children maps
Reachable == Closure(St(MapOrder), {inodes[RootInode]})

\* the layer object that is linked under a name of a layer's root, 0 if none
RootEntry(layer_root, name) == LayerLookup(St(MapOrder), layer_root, name)

\* C1: no inode number is a key of both the active map and the deleted map
\* of the InodeStore, in any state the requests can reach (a rename of a
\* node whose lookup count is above zero included).
C1_ActiveDeletedDisjoint ==
    (DOMAIN inodes) \cap (DOMAIN deleted) = {}

\* C2: after a completed mkdir (in particular one over a name whose child is
\* a whiteout node) each node reachable from the root is in the active map
\* under its inode number, and the node stored there is the node itself.
C2_ReachableIsActive ==
    (last.op = "mkdir" /\ last.err = "OK") =>
        \A n \in Reachable :
            /\ nodes[n].inode \in DOMAIN inodes
            /\ inodes[nodes[n].inode] = n

\* C3: every node reachable from the root has a real_inodes list that is not
\* empty, and stat64 answers from its element at index 0 (the first of the
\* list here), the one first_layer_inode hands to open and statfs.
C3_RealInodesNonEmpty ==
    \A n \in Reachable :
        /\ Len(nodes[n].real_inodes) >= 1
        /\ StatIndex(St(MapOrder), n) = 1

\* C3 witness: a create has succeeded in the root over a name that the lower
\* layer still holds, that is over a whiteout, and its node is upper only
C3_Witness ==
    /\ last.op = "create"
    /\ last.err = "OK"
    /\ last.ino = RootInode
    /\ RootEntry(LowerRoot, last.name) # 0
    /\ last.node \in Reachable
    /\ nodes[last.node].real_inodes =
           <<RealInode("upper", TRUE, RootEntry(UpperRoot, last.name), FALSE,
                       FALSE)>>

\* the directory entries a request on the directory ino would be given
Listed(ino) ==
    UNION {{do_readdir(St(ord), ino, offset).d[i].name :
               i \in 1..Len(do_readdir(St(ord), ino, offset).d)} \cup
           {do_readdirplus(St(ord), ino, offset).d[i].name :
               i \in 1..Len(do_readdirplus(St(ord), ino, offset).d)} :
           ord \in NameOrders, offset \in Offsets}

\* C4: whatever the offset, readdir and readdirplus emit no entry for a child
\* whose whiteout flag is set: each entry emitted is ".", ".." or a child of
\* the directory whose whiteout flag is off.
C4_NoWhiteoutEmitted ==
    (last.op \in {"readdir", "readdirplus"} /\ last.err = "OK") =>
        Let([D \in {get_all_inode(St(MapOrder), last.ino)} |->
          \A i \in 1..Len(last.d) :
             \/ last.d[i].name \in {".", ".."}
             \/ /\ last.d[i].name \in DOMAIN nodes[D].childrens
                /\ nodes[D].childrens[last.d[i].name] = last.d[i].node
                /\ ~nodes[last.d[i].node].whiteout])

\* C4 witness: a readdir or readdirplus has emitted entries of a directory
\* one of whose children is a whiteout node
C4_Witness ==
    /\ last.op \in {"readdir", "readdirplus"}
    /\ last.err = "OK"
    /\ Len(last.d) >= 2
    /\ \E name \in DOMAIN nodes[get_all_inode(St(MapOrder), last.ino)].childrens :
          nodes[nodes[get_all_inode(St(MapOrder), last.ino)].childrens[name]].whiteout

\* C5: in a directory that has been loaded, a child that load_directory made
\* for a name at which the directory's upper layer holds a whiteout has its
\* whiteout flag set.
C5_ScannedWhiteoutFlag ==
    \A D \in DOMAIN nodes :
        (nodes[D].loaded /\ in_upper_layer(St(MapOrder), D)) =>
            \A o \in LayerEntries(St(MapOrder), nodes[D].real_inodes[1].inode) :
                (/\ objs[o].kind = "wh"
                 /\ objs[o].name \in DOMAIN nodes[D].childrens
                 /\ nodes[nodes[D].childrens[objs[o].name]].parent = D)
                => nodes[nodes[D].childrens[objs[o].name]].whiteout

\* what C6 says of the state an unlink leaves
UnlinkedLowerOnly ==
    Let([s \in {St(MapOrder)} |->
      Let([D \in {get_all_inode(s, last.ino)} |->
        Let([lk \in {do_lookup(s, last.ino, last.name)} |->
          /\ in_upper_layer(s, D)
          /\ LayerLookup(s, nodes[D].real_inodes[1].inode, last.name) # 0
          /\ objs[LayerLookup(s, nodes[D].real_inodes[1].inode, last.name)].kind
                = "wh"
          /\ last.name \in DOMAIN nodes[D].childrens
          /\ nodes[nodes[D].childrens[last.name]].whiteout
          /\ lk.err = "ENOENT"
          /\ \A n \in DOMAIN nodes : lk.st.nodes[n].lookups = nodes[n].lookups
          /\ last.name \notin Listed(last.ino)])])])

C7_InodeStable ==
    [][(last'.op = "create" /\ last'.err = "OK") =>
          \A K \in (DOMAIN deleted) \ (DOMAIN inodes) :
              (/\ nodes[deleted[K]].lookups > 0
               /\ nodes[deleted[K]].path =
                     Append(nodes[get_all_inode(St(MapOrder), last'.ino)].path,
                            last'.name))
              => nodes'[last'.node].inode = K]_vars

\* C8: a forget of all the c > 0 lookups of a node that has been unlinked and
\* sits in the deleted map leaves its inode number in neither the active map
\* nor the deleted map.
C8_ForgetDropsDeleted ==
    [][(/\ last'.op = "forget"
        /\ last'.ino \in (DOMAIN deleted) \ (DOMAIN inodes)
        /\ nodes[deleted[last'.ino]].lookups > 0
        /\ nodes[deleted[last'.ino]].lookups = last'.arg)
       => /\ last'.ino \notin DOMAIN inodes'
          /\ last'.ino \notin DOMAIN deleted']_vars

\* every task of the concurrent copy-up has returned
AllReturned == \A t \in TaskIds : ~Running(t)

\* the node has exactly one RealInode of the upper layer, at index 0
OneUpperFirst(n) ==
    /\ Len(nodes[n].real_inodes) >= 1
    /\ nodes[n].real_inodes[1].in_upper_layer
    /\ \A i \in 2..Len(nodes[n].real_inodes) :
          ~nodes[n].real_inodes[i].in_upper_layer

\* C9: in every interleaving of two copy_node_up calls on a node of the lower
\* layers only (directory, regular file or symbolic link), once both have
\* returned the node has exactly one RealInode of the upper layer, at index
\* 0; and an add_upper_inode on a node that is promoted already changes
\* nothing of its real_inodes.
C9_OneUpperRealInode ==
    [][/\ AllReturned' =>
            \A t \in TaskIds : tasks[t].target = tasks[3 - t].target
                                => OneUpperFirst(tasks[t].target)'
       /\ \A t \in TaskIds :
            (/\ Running(t)
             /\ Top(t).pc = "add"
             /\ tasks'[t] # tasks[t]
             /\ in_upper_layer(St(MapOrder), Top(t).node))
            => nodes'[Top(t).node].real_inodes = nodes[Top(t).node].real_inodes
      ]_vars

\* C9 witness: both tasks have returned from copy_node_up of the same node,
\* and both had made the entry in the upper layer: each passed the test of
\* in_upper_layer before the other promoted the node
C9_Witness ==
    /\ tasks # <<>>
    /\ AllReturned
    /\ tasks[1].target = tasks[2].target
    /\ tasks[1].target \in tasks[1].made
    /\ tasks[2].target \in tasks[2].made
    /\ tasks[1].result = "OK"
    /\ tasks[2].result = "OK"

\* the writes of the copy so far: each at the offset that is the number of
\* bytes written before it, the offsets strictly increasing
WritesInOrder ==
    \A i \in 1..Len(copy.writes) :
        /\ copy.writes[i].offset = copy.writes[i].written
        /\ i > 1 => copy.writes[i].offset > copy.writes[i - 1].offset

\* C10: for a lower regular file of any length (0, below a chunk, multiples
\* of the chunk size, above it), when copy_regfile_up has returned Ok the
\* upper file has the length and the bytes of the lower file; every chunk is
\* written at the offset that is the number of bytes written before it, the
\* offsets strictly increasing; and the loop terminates.
C10_CopyRegfileContent ==
    /\ [](WritesInOrder /\ (copy.pc = "done" => copy.upper = copy.lower))
    /\ <>(copy.pc \in {"done", "panic"})

\* C10 witness: a file longer than a chunk, whose length is no multiple of
\* the chunk size, has been copied in more than two writes
C10_Witness ==
    /\ copy # <<>>
    /\ copy.pc = "done"
    /\ Len(copy.lower) > 2 * ChunkSize
    /\ Len(copy.lower) % ChunkSize # 0
    /\ Len(copy.writes) > 2
    /\ copy.upper = copy.lower


\* the entries of the layers that a copy-up has created
CopiedUp == {o \in DOMAIN objs : objs[o].src # 0}

\* C11: every entry that a copy-up of a directory, a regular file or a
\* symbolic link has created in the upper layer has the uid and the gid that
\* getattr_helper reports for its source, never the ID-mapped ones, and a
\* directory and a regular file have the mode of the source as well
C11_CopyUpOwner ==
    \A o \in CopiedUp :
      \E src \in {getattr_helper(St(<<>>), objs[o].src)} :
        /\ objs[o].layer = "upper"
        /\ objs[o].kind = src.kind
        /\ objs[o].uid = src.uid
        /\ objs[o].gid = src.gid
        /\ objs[o].uid # IdMap(src.uid)
        /\ objs[o].kind \in {"dir", "reg"} => objs[o].perm = src.perm

\* a directory and the file in it are both copied up from entries whose
\* owner is not the one of the request
C11_Witness ==
    /\ AllReturned
    /\ \E d, f \in CopiedUp :
         /\ objs[d].kind = "dir"
         /\ objs[f].kind = "reg"
         /\ objs[f].parent = d
         /\ objs[objs[f].src].uid # ReqAttr.uid
         /\ objs[objs[f].src].perm # ReqAttr.perm

\* the requests that change the file system
MutatingOps ==
    {"mkdir", "mknod", "create", "symlink", "link", "unlink", "rmdir", "rename",
     "open"}

\* C12: on a mount with no upper layer a mutating request (a rename being one
\* whose source name resolves to a node that is no whiteout) fails with EROFS
C12_NoUpperReadOnly ==
    (/\ ~upper_layer
     /\ last.op \in MutatingOps
     /\ last.op = "rename" => last.found \notin {"none", "whiteout"})
    => last.err = "EROFS"

\* the upper layer holds a whiteout for the name under the directory ino
UpperWhiteoutAt(ino, name) ==
    \E pn \in {get_all_inode(St(MapOrder), ino)} :
      /\ pn # 0
      /\ in_upper_layer(St(MapOrder), pn)
      /\ \E o \in {LayerLookup(St(MapOrder), nodes[pn].real_inodes[1].inode, name)} :
           o # 0 /\ objs[o].kind = "wh"

\* a rename that succeeded, of a source that had a lower representation, to
\* another place than its own
RenamedFromLower ==
    /\ last.op = "rename"
    /\ last.err = "OK"
    /\ last.found \in {"lower", "merged"}
    /\ <<last.ino, last.name>> # <<last.arg, last.to>>

\* C13: after a successful rename of a source with a lower representation the
\* upper layer holds a whiteout at the old place, a lookup of the old name
\* fails with ENOENT, and a lookup of the new name returns the source with the
\* inode number it had
C13_RenameLeavesWhiteout ==
    RenamedFromLower =>
      /\ UpperWhiteoutAt(last.ino, last.name)
      /\ do_lookup(St(MapOrder), last.ino, last.name).err = "ENOENT"
      /\ \E l \in {do_lookup(St(MapOrder), last.arg, last.to)} :
           l.err = "OK" /\ l.st.nodes[l.node].inode = last.src

\* the source of the last rename is where it was: the old name resolves to
\* the node with the inode number, the path and the parent it had, and the
\* layer entries it had are where they were
SourceInPlace ==
    /\ FoundIno(last.ino, last.name) = last.src
    /\ NodeAt(last.ino, last.name).path = last.was.source.path
    /\ NodeAt(last.ino, last.name).parent = last.was.source.parent
    /\ \A e \in last.was.source.entries :
         /\ e[1] \in DOMAIN objs
         /\ objs[e[1]].linked
         /\ <<objs[e[1]].parent, objs[e[1]].name>> = <<e[2], e[3]>>

\* a rename on a mount with an upper layer whose source and destination both
\* exist, one of them a directory and the other not
RenameKindsDiffer ==
    /\ upper_layer
    /\ last.op = "rename"
    /\ last.was.skind # "none"
    /\ last.was.dkind # "none"
    /\ (last.was.skind = "dir") # (last.was.dkind = "dir")

\* a rename on a mount with an upper layer of a directory onto a directory
\* that has a child that is no whiteout
RenameOntoFullDir ==
    /\ upper_layer
    /\ last.op = "rename"
    /\ last.was.skind = "dir"
    /\ last.was.dkind = "dir"
    /\ last.was.dfull

\* C14: a rename fails with EISDIR when the destination exists and exactly
\* one of source and destination is a directory, and with ENOTEMPTY when the
\* destination directory has a child that is no whiteout; in both cases the
\* source stays where it was in the layers and in the store
C14_RenameRefused ==
    /\ RenameKindsDiffer => (last.err = "EISDIR" /\ SourceInPlace)
    /\ RenameOntoFullDir => (last.err = "ENOTEMPTY" /\ SourceInPlace)

\* a directory is refused with EISDIR on a regular file
C14_KindsDifferSeen ==
    RenameKindsDiffer /\ last.was.skind = "dir" /\ last.err = "EISDIR"

\* a directory that a request has made is refused on another directory that
\* has a child
C14_Witness ==
    /\ RenameOntoFullDir
    /\ last.err = "ENOTEMPTY"
    /\ <<last.ino, last.name>> # <<last.arg, last.to>>

\* the next request is a rmdir, on a mount with an upper layer, of a
\* directory that has a child that is no whiteout
RmdirOfFullDir ==
    /\ upper_layer
    /\ last'.op = "rmdir"
    /\ last'.was.dkind = "dir"
    /\ last'.was.dfull

\* the last request was a rmdir of such a directory
RmdirOfFullDirDone ==
    /\ upper_layer
    /\ last.op = "rmdir"
    /\ last.was.dkind = "dir"
    /\ last.was.dfull

\* the directory the next request names has its children loaded
TargetLoaded ==
    nodes[get_all_inode(St(MapOrder), last'.src)].loaded

\* C15: rmdir of a directory that has a child that is no whiteout fails with
\* ENOTEMPTY and leaves the layers as they were; when the directory had its
\* children loaded, the nodes and the inode store are left as they were too;
\* the name still resolves to the directory, which is in the active map
C15_RmdirNotEmpty ==
    /\ [][RmdirOfFullDir =>
            /\ last'.err = "ENOTEMPTY"
            /\ objs' = objs
            /\ deleted' = deleted
            /\ TargetLoaded =>
                 UNCHANGED <<nodes, inodes, path_mapping, nlinks, next_inode>>]_vars
    /\ [](RmdirOfFullDirDone =>
            /\ FoundIno(last.ino, last.name) = last.src
            /\ last.src \in DOMAIN inodes)

\* rmdir has been refused on a directory that holds an entry of the upper
\* layer and one of the lower layer
C15_Witness ==
    /\ upper_layer
    /\ last.op = "rmdir"
    /\ last.err = "ENOTEMPTY"
    /\ last.was.dfull
    /\ \E n \in {get_all_inode(St(MapOrder), last.src)} :
         /\ n # 0
         /\ \E x, y \in Range(nodes[n].childrens) :
              /\ in_upper_layer(St(MapOrder), x)
              /\ ~in_upper_layer(St(MapOrder), y)

\* no entry of a layer is left under a directory that has been removed
NoOrphans ==
    \A o \in DOMAIN objs :
      (objs[o].linked /\ objs[o].parent # 0) =>
        (objs[o].parent \in DOMAIN objs /\ objs[objs[o].parent].linked)

\* the directory the last request named is one that the children maps lead
\* to from the root
ParentInTree ==
    get_all_inode(St(MapOrder), last.ino) \in Reachable

\* an unlink, on a mount with an upper layer, in a directory of the tree, of
\* an entry of the lower layers only that is no directory
UnlinkOfLowerEntry ==
    /\ upper_layer
    /\ ParentInTree
    /\ last.op = "unlink"
    /\ last.found = "lower"
    /\ last.was.dkind \in {"reg", "lnk"}

\* a rmdir, on a mount with an upper layer, in a directory of the tree, of a
\* directory with a lower representation that has no child but whiteouts,
\* and a child for every entry of its upper directory
RmdirOfEmptiedDir ==
    /\ upper_layer
    /\ ParentInTree
    /\ last.op = "rmdir"
    /\ last.found \in {"lower", "merged"}
    /\ last.was.dkind = "dir"
    /\ ~last.was.dfull
    /\ last.was.dsync

\* C16: the unlink of a lower-only entry succeeds and leaves a whiteout for
\* it in the upper layer; the rmdir of a directory of the lower layer whose
\* entries are all unlinked succeeds and leaves the upper layer with a
\* whiteout in the place of the directory, with no directory of that name and
\* with none of the whiteouts that were under it
C16_UnlinkThenRmdir ==
    /\ UnlinkOfLowerEntry =>
         (last.err = "OK" /\ UpperWhiteoutAt(last.ino, last.name))
    /\ RmdirOfEmptiedDir =>
         /\ last.err = "OK"
         /\ UpperWhiteoutAt(last.ino, last.name)
         /\ NoOrphans
         /\ do_lookup(St(MapOrder), last.ino, last.name).err = "ENOENT"

\* the directory of the lower layer has been removed after the one entry it
\* had was unlinked: it held the whiteout of that entry and nothing else
C16_Witness ==
    /\ RmdirOfEmptiedDir
    /\ last.err = "OK"
    /\ last.found = "merged"
    /\ last.was.dwh = 1
    /\ \E o \in DOMAIN objs :
         /\ objs[o].layer = "lower"
         /\ objs[o].kind = "dir"
         /\ objs[o].name = last.name
         /\ LayerEntries(St(MapOrder), o) # {}

\* the entry of the lower layer at a path, 0 if none
RECURSIVE LowerAtFrom(_, _, _)
LowerAtFrom(dir, path, i) ==
    IF dir = 0 \/ i > Len(path) THEN dir
    ELSE LowerAtFrom(LayerLookup(St(MapOrder), dir, path[i]), path, i + 1)

LowerAt(path) ==
    IF LowerRoot \in DOMAIN objs THEN LowerAtFrom(LowerRoot, path, 1) ELSE 0

\* a mkdir that succeeded over a name that was a whiteout and that has an
\* entry in the lower layer
MkdirOverWhiteout ==
    /\ last.op = "mkdir"
    /\ last.err = "OK"
    /\ last.found = "whiteout"
    /\ last.node \in DOMAIN nodes
    /\ LowerAt(nodes[last.node].path) # 0
    /\ objs[LowerAt(nodes[last.node].path)].kind # "wh"

\* C17: a mkdir over a name that is a whiteout and has an entry in the lower
\* layer leaves the upper layer with a directory at the name, in the place of
\* the whiteout, that is marked opaque
C17_MkdirOverWhiteoutOpaque ==
    MkdirOverWhiteout =>
      \E o \in {nodes[last.node].real_inodes[1].inode} :
        /\ objs[o].layer = "upper"
        /\ objs[o].kind = "dir"
        /\ objs[o].opaque

---------------------------------------------------------------------------
(* link *)

\* the next request is a link whose source is a directory
LinkOfDir ==
    /\ upper_layer
    /\ last'.op = "link"
    /\ last'.was.skind = "dir"
    /\ last'.was.pkind = "dir"

\* the next request is a link of a file or a symbolic link to a name that
\* stands for a node that is no whiteout
LinkOntoName ==
    /\ upper_layer
    /\ last'.op = "link"
    /\ last'.was.skind \in {"reg", "lnk"}
    /\ last'.was.pkind = "dir"
    /\ last'.was.dkind # "none"

\* a link of a directory is refused with EPERM and leaves the layers alone
LinkOfDirRefused ==
    [][LinkOfDir => last'.err = "EPERM" /\ objs' = objs]_vars

\* a link onto a name that exists is refused with EEXIST
LinkOntoNameRefused ==
    [][LinkOntoName => last'.err = "EEXIST"]_vars

\* after a link that succeeded, the new name and every name the source had
\* resolve to the inode number of the source, whose nlink has grown by one
LinkSharesNode ==
    (upper_layer /\ last.op = "link" /\ last.err = "OK") =>
      /\ FoundIno(last.arg, last.to) = last.src
      /\ \A dx \in last.was.source.names : FoundIno(dx[1], dx[2]) = last.src
      /\ last.src \in DOMAIN nlinks
      /\ nlinks[last.src] = WrapAdd1(last.was.nlink)

\* an unlink of one name right after the link leaves the other names of the
\* node resolvable and the node in the active map
LinkedNameSurvivesUnlink ==
    (upper_layer /\ last.op = "unlink" /\ last.err = "OK" /\ last.was.linked) =>
      \A dx \in last.was.source.names \ {<<last.ino, last.name>>} :
        /\ FoundIno(dx[1], dx[2]) = last.src
        /\ last.src \in DOMAIN inodes

\* C18 (the refusals): a link whose source is a directory fails with EPERM,
\* a link of a file onto a name that exists and is no whiteout fails with
\* EEXIST, and neither changes anything in the layers
C18_LinkRefusedChangesNothing ==
    [][(LinkOfDir \/ LinkOntoName) =>
         /\ last'.err = IF LinkOfDir THEN "EPERM" ELSE "EEXIST"
         /\ objs' = objs]_vars

---------------------------------------------------------------------------
(* The InodeStore on its own: any store of InodeLimit numbers, and the      *)
(* calls of its methods.                                                    *)

\* INODE_ALLOC_BATCH, scaled, and the keys a coordinator hands out
InodeAllocBatch == 4
MaxKey == 2

\* the calls that are made on a store, and how many of the first of them may
\* be an insert_inode or a remove_inode
StoreSteps == 2
StoreSetups == 1

\* the nodes the callers hold: the root, /a with a lookup count, /b without
StoreNodes ==
    <<[path |-> <<>>, lookups |-> 1],
      [path |-> <<"a">>, lookups |-> 1],
      [path |-> <<"b">>, lookups |-> 0]>>

StorePaths == {StoreNodes[n].path : n \in DOMAIN StoreNodes}

StoreHoles == 2

StoreSt ==
    [nodes |-> nodes, inodes |-> inodes, deleted |-> deleted,
     path_mapping |-> path_mapping, nlinks |-> nlinks,
     next_inode |-> next_inode, inode_limit |-> inode_limit]

\* a call on the store: the method, the number it was given or has returned,
\* the path it was given, reg: the paths that insert_inode has registered
\* and that no remove_inode has removed since, with their numbers, and from:
\* next_inode as the call found it; key: the key of the last
\* extend_inode_alloc, -1 if there was none
StoreReq(op, ino, path, err, reg) ==
    [op |-> op, ino |-> ino, path |-> path, err |-> err, reg |-> reg,
     from |-> next_inode, key |-> last.key]

\* any store: the numbers in use are all but StoreHoles of them at most, or a
\* run of consecutive numbers; those of the deleted map are none or the even
\* ones; no path is registered, or /a is
InitStore ==
    \E used \in {u \in SUBSET (1..InodeLimit) :
                   \/ Cardinality(u) >= InodeLimit - StoreHoles
                   \/ \E a \in 1..(InodeLimit + 1), b \in 0..InodeLimit :
                        u = a..b},
       gone \in {{}, {2, 4, 6, 8}},
       next \in 1..(InodeLimit + 1),
       reg \in {<<>>, (<<"a">> :> 2)} :
      /\ nodes = StoreNodes
      /\ inodes = [i \in used \ gone |-> 1 + (i % 3)]
      /\ deleted = [i \in used \cap gone |-> 1 + (i % 3)]
      /\ nlinks = [i \in used |-> IF i \in gone THEN 0 ELSE 1]
      /\ path_mapping = reg
      /\ next_inode = next
      /\ inode_limit = InodeLimit
      /\ last = [op |-> "new", ino |-> 0, path |-> <<>>, err |-> "OK",
                 reg |-> reg, from |-> next, key |-> -1]
      /\ served = 0
      /\ objs = <<>>
      /\ upper_layer = FALSE
      /\ tasks = <<>>
      /\ copy = <<>>

StoreCommit(s) ==
    /\ served < StoreSteps
    /\ served' = served + 1
    /\ inodes' = s.inodes
    /\ deleted' = s.deleted
    /\ path_mapping' = s.path_mapping
    /\ nlinks' = s.nlinks
    /\ next_inode' = s.next_inode
    /\ inode_limit' = s.inode_limit
    /\ UNCHANGED <<nodes, objs, upper_layer, tasks, copy>>

AllocUnique ==
    \E r \in {alloc_unique_inode(StoreSt)} :
      /\ StoreCommit(r.st)
      /\ last' = StoreReq("alloc_unique_inode", r.ino, <<>>, r.err, last.reg)

AllocInode ==
    \E path \in StorePaths :
      \E r \in {alloc_inode(StoreSt, path)} :
        /\ StoreCommit(r.st)
        /\ last' = StoreReq("alloc_inode", r.ino, path, r.err, last.reg)

InsertInode ==
    \E inode \in 1..InodeLimit, n \in DOMAIN StoreNodes :
      /\ served < StoreSetups
      /\ StoreCommit(insert_inode(StoreSt, inode, n))
      /\ last' = StoreReq("insert_inode", inode, StoreNodes[n].path, "OK",
                          MapPut(last.reg, StoreNodes[n].path, inode))

\* a remove_inode of a number that has no nlink returns at once
RemoveInode ==
    \E inode \in 1..InodeLimit, path_removed \in {<<>>} \cup {<<p>> : p \in StorePaths} :
      /\ served < StoreSetups
      /\ StoreCommit(remove_inode(StoreSt, inode, path_removed))
      /\ last' = StoreReq("remove_inode", inode, path_removed, "OK",
                          IF path_removed = <<>> \/ inode \notin DOMAIN nlinks
                          THEN last.reg
                          ELSE MapDel(last.reg, path_removed[1]))

\* InodeStore::extend_inode_number
extend_inode_number(s, next, limit) ==
    [s EXCEPT !.next_inode = next, !.inode_limit = limit]

\* the window of the key: key * INODE_ALLOC_BATCH and the BATCH - 1 numbers
\* that follow
extend_inode_alloc(s, key) ==
    extend_inode_number(s, key * InodeAllocBatch,
                        key * InodeAllocBatch + InodeAllocBatch - 1)

ExtendInodeAlloc ==
    \E key \in 0..MaxKey :
      /\ served < StoreSetups
      /\ StoreCommit(extend_inode_alloc(StoreSt, key))
      /\ last' = [StoreReq("extend_inode_alloc", key, <<>>, "OK", last.reg)
                    EXCEPT !.key = key]

NextStore ==
    \/ ExtendInodeAlloc
    \/ AllocUnique
    \/ AllocInode
    \/ InsertInode
    \/ RemoveInode

SpecStore == InitStore /\ [][NextStore]_vars

\* the numbers that are a key of the active or of the deleted map
InUse == (DOMAIN inodes) \cup (DOMAIN deleted)

\* the first number that is not in use, going up from next_inode to
\* inode_limit and then from 1; 0 if there is none
FirstFree ==
    LET from == IF next_inode > inode_limit THEN 1 ELSE next_inode
        free == (1..inode_limit) \ InUse
    IN IF free = {} THEN 0
       ELSE IF \E i \in free : i >= from
            THEN Min({i \in free : i >= from})
            ELSE Min(free)

StoreUnchanged ==
    UNCHANGED <<inodes, deleted, path_mapping, nlinks, next_inode, inode_limit>>

C19_FullSeen ==
    /\ last.op = "alloc_unique_inode"
    /\ last.err # "OK"
    /\ (1..inode_limit) \subseteq InUse

\* C20: alloc_inode of a path that insert_inode has registered, and that has
\* not been removed, returns the number registered and leaves next_inode (and
\* the store) alone; of any other path it returns what alloc_unique_inode
\* returns, a number that is a key of neither map
C20_AllocInodeReserved ==
    [][last'.op = "alloc_inode" =>
         IF last'.path \in DOMAIN last.reg
         THEN /\ last'.err = "OK"
              /\ last'.ino = last.reg[last'.path]
              /\ StoreUnchanged
         ELSE /\ last'.err = alloc_unique_inode(StoreSt).err
              /\ last'.ino = alloc_unique_inode(StoreSt).ino
              /\ next_inode' = alloc_unique_inode(StoreSt).st.next_inode
              /\ last'.err = "OK" => last'.ino \notin InUse]_vars

\* alloc_inode has returned the number that the insert_inode before it has
\* registered for the path, a number other than the one the probe would give
C20_Witness ==
    /\ last.op = "alloc_inode"
    /\ last.err = "OK"
    /\ last.path \in DOMAIN last.reg
    /\ last.ino = last.reg[last.path]
    /\ last.ino \in InUse
    /\ served = 2
    /\ last.path = <<"b">>

\* the numbers of the window of a key
Window(key) ==
    (key * InodeAllocBatch)..(key * InodeAllocBatch + InodeAllocBatch - 1)

\* C21: once extend_inode_alloc(key) has been called, every number that
\* alloc_unique_inode returns lies in the window of the key
C21_AllocInWindow ==
    (last.op = "alloc_unique_inode" /\ last.err = "OK" /\ last.key >= 0) =>
      last.ino \in Window(last.key)

---------------------------------------------------------------------------
(* new_from_real_inodes on its own: any upper-first list of RealInodes      *)

MaxRis == 3

\* one layer inode of each kind
MergeObjs ==
    <<Obj("lower", "dir", 0, ""), Obj("lower", "reg", 0, "a"),
      Obj("lower", "lnk", 0, "a"), Obj("lower", "wh", 0, "a")>>

\* what lookup_child makes of a layer inode: whiteout for a whiteout, opaque
\* or not for a directory
MergeChoices ==
    {RealInode("lower", FALSE, o, MergeObjs[o].kind = "wh", opq) :
       o \in DOMAIN MergeObjs, opq \in BOOLEAN} \
    {ri \in {RealInode("lower", FALSE, o, MergeObjs[o].kind = "wh", TRUE) :
               o \in DOMAIN MergeObjs} : MergeObjs[ri.inode].kind # "dir"}

\* the Result of new_from_real_inodes: EINVAL for the empty list
NewFromRealInodes(s, name, ino, path, ris) ==
    IF ris = <<>> THEN [err |-> "EINVAL", node |-> <<>>]
    ELSE [err |-> "OK", node |-> new_from_real_inodes(s, name, ino, path, ris)]

InitMerge ==
    \E n \in 0..MaxRis : \E ris \in [1..n -> MergeChoices] :
      /\ last = [op |-> "input", ris |-> ris, err |-> "OK", node |-> <<>>]
      /\ objs = MergeObjs
      /\ nodes = <<>>
      /\ inodes = <<>>
      /\ deleted = <<>>
      /\ path_mapping = <<>>
      /\ nlinks = <<>>
      /\ next_inode = 1
      /\ inode_limit = InodeLimit
      /\ upper_layer = FALSE
      /\ served = 0
      /\ tasks = <<>>
      /\ copy = <<>>

Merge ==
    /\ last.op = "input"
    /\ \E r \in {NewFromRealInodes(St(MapOrder), "a", 2, <<"a">>, last.ris)} :
         last' = [op |-> "new_from_real_inodes", ris |-> last.ris,
                  err |-> r.err, node |-> r.node]
    /\ served' = served + 1
    /\ UNCHANGED <<nodes, inodes, deleted, path_mapping, nlinks, next_inode,
                   inode_limit, objs, upper_layer, tasks, copy>>

NextMerge == Merge

SpecMerge == InitMerge /\ [][NextMerge]_vars

\* a RealInode that is no whiteout and is a directory
MergesAsDir(ri) == ~ri.whiteout /\ MergeObjs[ri.inode].kind = "dir"

\* C22: the empty list gives EINVAL; otherwise the node takes the first
\* element, its whiteout flag and lookups = 1, and its RealInodes are the
\* elements down to the first that is a whiteout or no directory (left out,
\* unless it is the first) or an opaque directory (taken): all but the first
\* are directories, none lies below a whiteout, a non-directory or an opaque
\* directory, and the walk stops for no other reason
C22_MergeStops ==
    last.op = "new_from_real_inodes" =>
      IF last.ris = <<>> THEN last.err = "EINVAL"
      ELSE /\ last.err = "OK"
           /\ last.node.lookups = 1
           /\ last.node.whiteout = last.ris[1].whiteout
           /\ LET got == last.node.real_inodes
                  k == Len(got)
              IN /\ k >= 1
                 /\ k <= Len(last.ris)
                 /\ got = SubSeq(last.ris, 1, k)
                 /\ \A i \in 2..k : MergesAsDir(got[i])
                 /\ \A i \in 1..(k - 1) : MergesAsDir(got[i]) /\ ~got[i].opaque
                 /\ k < Len(last.ris) =>
                      \/ ~MergesAsDir(got[k])
                      \/ got[k].opaque
                      \/ ~MergesAsDir(last.ris[k + 1])

\* a directory, an opaque directory and a directory below it: two are taken
C22_Witness ==
    /\ last.op = "new_from_real_inodes"
    /\ Len(last.ris) = 3
    /\ \A i \in 1..3 : MergesAsDir(last.ris[i])
    /\ ~last.ris[1].opaque
    /\ last.ris[2].opaque
    /\ Len(last.node.real_inodes) = 2

---------------------------------------------------------------------------
(* Lookup counts *)

\* C23: the root node is in the active map with a lookup count of 2 at
\* least, after the import and after every request, a forget of the root of
\* any count included
C23_RootNeverForgotten ==
    /\ RootInode \in DOMAIN inodes
    /\ nodes[inodes[RootInode]].lookups >= 2
    /\ last.op = "import" => nodes[inodes[RootInode]].lookups = 2

\* the root has been forgotten with a count that covers its lookups
C23_Witness ==
    /\ last.op = "forget"
    /\ last.ino = RootInode
    /\ last.arg >= nodes[inodes[RootInode]].lookups

\* the nodes that are there before and after the step, but for n
Others(n) == ((DOMAIN nodes) \cap (DOMAIN nodes')) \ {n}

\* the node the number of the next forget stands for, 0 if none
Forgotten == get_all_inode(St(MapOrder), last'.ino)

\* the requests one after the other: a lookup that succeeds adds 1 to the
\* count of the node it returns and leaves the other counts alone, a lookup
\* that fails leaves every count alone; a forget of n brings the count of its
\* node to max(count - n, 0), and the node away at 0 only; a forget of 0 or of
\* a number that the store does not know changes nothing
LookupCountsInSequence ==
    [][/\ (last'.op = "lookup" /\ last'.err = "OK") =>
            /\ last'.node \in DOMAIN nodes'
            /\ nodes'[last'.node].lookups =
                 IF last'.node \in DOMAIN nodes
                 THEN nodes[last'.node].lookups + 1 ELSE 2
            /\ \A m \in Others(last'.node) : nodes'[m].lookups = nodes[m].lookups
       /\ (last'.op = "lookup" /\ last'.err # "OK") =>
            \A m \in Others(0) : nodes'[m].lookups = nodes[m].lookups
       /\ (last'.op = "forget" /\ Forgotten = 0) =>
            UNCHANGED <<nodes, inodes, deleted, path_mapping, nlinks,
                        next_inode, objs>>
       /\ (last'.op = "forget" /\ Forgotten # 0 /\ last'.ino # RootInode) =>
            /\ \A m \in Others(Forgotten) : nodes'[m].lookups = nodes[m].lookups
            /\ IF Forgotten \in DOMAIN nodes'
               THEN nodes'[Forgotten].lookups =
                      IF nodes[Forgotten].lookups < last'.arg THEN 0
                      ELSE nodes[Forgotten].lookups - last'.arg
               ELSE nodes[Forgotten].lookups <= last'.arg]_vars

\* a forget has asked for more than the count that the node held
ForgetSaturatesSeen ==
    /\ last.op = "forget"
    /\ last.ino \notin {0, RootInode}
    /\ last.was >= 1
    /\ last.arg > last.was
    /\ get_all_inode(St(MapOrder), last.ino) = 0

---------------------------------------------------------------------------
(* Lookups and forgets that run together.  A lookup finds its node, then   *)
(* adds to the count; a forget finds its node, updates the count in a      *)
(* compare-and-exchange loop, loads the count and drops the node at 0.     *)

CountTasks == 1..3

\* what the tasks ask for: lookups of /a and of a name that is not there,
\* forgets of /a, of the root, of 0 and of a number that is not known
CountOps ==
    {[op |-> "lookup", ino |-> RootInode, name |-> n, count |-> 0] :
       n \in Names} \cup
    {[op |-> "forget", ino |-> 2, name |-> "", count |-> c] : c \in Counts} \cup
    {[op |-> "forget", ino |-> i, name |-> "", count |-> 1] :
       i \in {0, RootInode, InodeLimit}}

\* a step of a task: what it did, the node whose count it touched (0: none)
\* and the count it took away
CountStep(t, step, node, count) ==
    [op |-> "count", t |-> t, step |-> step, node |-> node, count |-> count]

InitCount ==
    \E layout \in {LayoutFile, LayoutDir}, looked \in BOOLEAN :
      \E s0 \in {import(TRUE, layout, MapOrder)} :
      \E s \in {IF looked THEN do_lookup(s0, RootInode, "a").st ELSE s0} :
        /\ nodes = s.nodes
        /\ inodes = s.inodes
        /\ deleted = s.deleted
        /\ path_mapping = s.path_mapping
        /\ nlinks = s.nlinks
        /\ next_inode = s.next_inode
        /\ inode_limit = s.inode_limit
        /\ objs = s.objs
        /\ upper_layer = TRUE
        /\ last = CountStep(0, "import", 0, 0)
        /\ served = 0
        /\ copy = <<>>
        /\ \E ops \in [CountTasks -> CountOps] :
             tasks = [t \in CountTasks |->
                        [ask |-> ops[t], pc |-> "start", node |-> 0,
                         current |-> 0, err |-> "OK"]]

\* the nodes stay as long as a task may hold one
CountCommit(s) ==
    /\ nodes' = s.nodes
    /\ inodes' = s.inodes
    /\ deleted' = s.deleted
    /\ path_mapping' = s.path_mapping
    /\ nlinks' = s.nlinks
    /\ next_inode' = s.next_inode
    /\ inode_limit' = s.inode_limit
    /\ objs' = s.objs
    /\ UNCHANGED <<upper_layer, served, copy>>

\* do_lookup: lookup_node, the tests and load_directory
LookupFindStep ==
    \E t \in CountTasks :
      /\ tasks[t].pc = "start"
      /\ tasks[t].ask.op = "lookup"
      /\ \E r \in {LookupFind(St(MapOrder), tasks[t].ask.ino, tasks[t].ask.name)} :
           /\ CountCommit(r.st)
           /\ tasks' = [tasks EXCEPT
                          ![t].pc = IF r.err = "OK" THEN "add" ELSE "done",
                          ![t].node = r.node, ![t].err = r.err]
           /\ last' = CountStep(t, IF r.err = "OK" THEN "found" ELSE "lookup_failed",
                                r.node, 0)

\* do_lookup: `node.lookups.fetch_add(1, Ordering::Relaxed)`
LookupAddStep ==
    \E t \in CountTasks :
      /\ tasks[t].pc = "add"
      /\ CountCommit(fetch_add(St(MapOrder), tasks[t].node))
      /\ tasks' = [tasks EXCEPT ![t].pc = "done"]
      /\ last' = CountStep(t, "fetch_add", tasks[t].node, 0)

\* forget_one: the test of the number and get_all_inode
ForgetFindStep ==
    \E t \in CountTasks :
      /\ tasks[t].pc = "start"
      /\ tasks[t].ask.op = "forget"
      /\ \E v \in {IF tasks[t].ask.ino \in {0, RootInode} THEN 0
                   ELSE get_all_inode(St(MapOrder), tasks[t].ask.ino)} :
           /\ tasks' = [tasks EXCEPT ![t].pc = IF v = 0 THEN "done" ELSE "load",
                                     ![t].node = v]
           /\ last' = CountStep(t, IF v = 0 THEN "forget_none" ELSE "found", v, 0)
      /\ CountCommit(St(MapOrder))

\* fetch_update: the load that starts the loop
ForgetLoadStep ==
    \E t \in CountTasks :
      /\ tasks[t].pc = "load"
      /\ tasks' = [tasks EXCEPT ![t].pc = "cas",
                                ![t].current = nodes[tasks[t].node].lookups]
      /\ last' = CountStep(t, "load", tasks[t].node, 0)
      /\ CountCommit(St(MapOrder))

\* fetch_update: a round of the loop
ForgetUpdateStep ==
    \E t \in CountTasks :
      /\ tasks[t].pc = "cas"
      /\ \E r \in {fetch_update(St(MapOrder), tasks[t].node, tasks[t].current,
                                tasks[t].ask.count)} :
           /\ CountCommit(r.st)
           /\ tasks' = [tasks EXCEPT ![t].pc = IF r.ok THEN "check" ELSE "cas",
                                     ![t].current = r.current]
           /\ last' = CountStep(t, IF r.ok THEN "fetch_update" ELSE "retry",
                                tasks[t].node, tasks[t].ask.count)

\* forget_one: `v.lookups.load(..)`, and remove_inode and remove_child at 0
ForgetDropStep ==
    \E t \in CountTasks :
      /\ tasks[t].pc = "check"
      /\ CountCommit(ForgetDrop(St(MapOrder), tasks[t].ask.ino, tasks[t].node,
                                nodes[tasks[t].node].lookups))
      /\ tasks' = [tasks EXCEPT ![t].pc = "done"]
      /\ last' = CountStep(t, "drop", tasks[t].node, 0)

NextCount ==
    \/ LookupFindStep
    \/ LookupAddStep
    \/ ForgetFindStep
    \/ ForgetLoadStep
    \/ ForgetUpdateStep
    \/ ForgetDropStep

SpecCount == InitCount /\ [][NextCount]_vars

\* the counts of the nodes other than n do not change in the step
OtherCountsKept(n) ==
    \A m \in (DOMAIN nodes) \ {n} :
      m \in DOMAIN nodes' /\ nodes'[m].lookups = nodes[m].lookups

StoreKept ==
    UNCHANGED <<nodes, inodes, deleted, path_mapping, nlinks, next_inode, objs>>

\* C24: whatever the tasks do in between, the fetch_add of a lookup that
\* succeeds adds exactly 1 to the count of its node, a lookup that fails
\* changes no count, the fetch_update of forget(ino, n) brings the count from
\* the value it has at that moment to max(value - n, 0), never below 0, no
\* other step changes a count, and a forget of 0, of the root or of a number
\* that is not known changes nothing
C24_CountsUnderInterleaving ==
    [][/\ last'.step = "fetch_add" =>
            /\ nodes'[last'.node].lookups = nodes[last'.node].lookups + 1
            /\ OtherCountsKept(last'.node)
       /\ last'.step = "fetch_update" =>
            /\ nodes'[last'.node].lookups =
                 IF nodes[last'.node].lookups < last'.count THEN 0
                 ELSE nodes[last'.node].lookups - last'.count
            /\ OtherCountsKept(last'.node)
       /\ last'.step \in {"lookup_failed", "found", "load", "retry", "drop"} =>
            OtherCountsKept(0)
       /\ last'.step = "forget_none" => StoreKept
       /\ \A m \in DOMAIN nodes' : nodes'[m].lookups \in 0..U64Max]_vars

\* a forget has stored its result after another task had changed the count
\* under it, and the count it asked for was more than the count left
C24_InterleavedSeen ==
    /\ last.step = "fetch_update"
    /\ tasks[last.t].current < last.count
    /\ nodes[last.node].lookups = 0
    /\ \E u \in CountTasks \ {last.t} :
         /\ tasks[u].ask.op = "forget"
         /\ tasks[u].node = last.node
         /\ tasks[u].pc \in {"check", "done"}
    /\ \E u \in CountTasks \ {last.t} :
         /\ tasks[u].ask.op = "lookup"
         /\ tasks[u].node = last.node
         /\ tasks[u].pc = "done"

---------------------------------------------------------------------------
(* readdir *)

\* C25: what readdir and readdirplus of offset o return are the entries of
\* the directory from position o on: the i-th of them carries the offset
\* o + i, and is "." only at position 0 and ".." only at position 1
C25_ReaddirFromOffset ==
    (last.op \in {"readdir", "readdirplus"} /\ last.err = "OK") =>
      \A i \in 1..Len(last.d) :
        /\ last.d[i].offset = last.arg + i
        /\ last.d[i].name = "." <=> last.arg + i = 1
        /\ last.d[i].name = ".." <=> last.arg + i = 2

---------------------------------------------------------------------------
(* One layer alone: the default methods of the Layer trait over the        *)
(* Filesystem methods of the layer.  Here objs holds the inodes of one     *)
(* layer, all entries of its root directory (inode 1): name, linked, kind, *)
(* perm, rdev, and refs, the lookup count the layer keeps for the inode.   *)

MaxLayerInos == 2
MaxRefs == 2
LayerInos == 2..(MaxLayerInos + 1)
LayerNames == {"a", "b"}
\* what the layer's lookup may do besides answering: fail with another error
\* than ENOENT, or answer an absent name with a negative entry (inode 0)
LookupFaults == {"none", "EACCES", "negative"}

NegativeAttr == [ino |-> 0, kind |-> "none", perm |-> 0, rdev |-> 0]

AttrOf(l, ino) ==
    [ino |-> ino, kind |-> l[ino].kind, perm |-> l[ino].perm,
     rdev |-> l[ino].rdev]

\* the inode that name is linked to, 0 if there is none
NamedIno(l, name) ==
    IF \E o \in DOMAIN l : l[o].linked /\ l[o].name = name
    THEN CHOOSE o \in DOMAIN l : l[o].linked /\ l[o].name = name
    ELSE 0

\* is_whiteout(&FileAttr): a character device with device number 0/0
is_whiteout(attr) == attr.kind = "chr" /\ attr.rdev = 0

\* an inode that has neither a name nor a lookup reference is gone
Reap(l) == [o \in {x \in DOMAIN l : l[x].linked \/ l[x].refs > 0} |-> l[o]]

\* Filesystem::lookup(parent, name) of the layer: the entry, with one more
\* lookup reference on its inode
FsLookup(l, name, fault) ==
    IF fault = "EACCES" THEN [err |-> "EACCES", attr |-> NegativeAttr, l |-> l]
    ELSE IF NamedIno(l, name) # 0
    THEN [err |-> "OK", attr |-> AttrOf(l, NamedIno(l, name)),
          l |-> [l EXCEPT ![NamedIno(l, name)].refs = @ + 1]]
    ELSE IF fault = "negative"
    THEN [err |-> "OK", attr |-> NegativeAttr, l |-> l]
    ELSE [err |-> "ENOENT", attr |-> NegativeAttr, l |-> l]

\* Filesystem::forget(inode, nlookup)
FsForget(l, ino, n) ==
    IF ino \notin DOMAIN l THEN l
    ELSE Reap([l EXCEPT ![ino].refs = IF @ < n THEN 0 ELSE @ - n])

\* Filesystem::mknod(parent, name, mode, rdev): the new entry, holding one
\* lookup reference
FsMknod(l, name, kind, perm, rdev) ==
    IF NamedIno(l, name) # 0
    THEN [err |-> "EEXIST", attr |-> NegativeAttr, l |-> l]
    ELSE IF LayerInos \ DOMAIN l = {}
    THEN [err |-> "ENOSPC", attr |-> NegativeAttr, l |-> l]
    ELSE Let([o \in {Min(LayerInos \ DOMAIN l)} |->
           Let([l1 \in {MapPut(l, o, [name |-> name, linked |-> TRUE,
                                      kind |-> kind, perm |-> perm,
                                      rdev |-> rdev, refs |-> 1])} |->
             [err |-> "OK", attr |-> AttrOf(l1, o), l |-> l1]])])

\* Filesystem::unlink(parent, name)
FsUnlink(l, name) ==
    IF NamedIno(l, name) = 0 THEN [err |-> "ENOENT", l |-> l]
    ELSE [err |-> "OK", l |-> Reap([l EXCEPT ![NamedIno(l, name)].linked = FALSE])]

\* Layer::create_whiteout with the EEXIST branch keeping its lookup reference
Layer_create_whiteout_keep(l, name, fault) ==
    Let([v \in {FsLookup(l, name, fault)} |->
      IF v.err = "OK" /\ is_whiteout(v.attr) THEN v
      ELSE IF v.err = "OK" /\ v.attr.ino # 0
      THEN [err |-> "EEXIST", attr |-> NegativeAttr, l |-> v.l]
      ELSE IF v.err # "OK" /\ v.err # "ENOENT" THEN v
      ELSE FsMknod(v.l, name, "chr", 511, 0)])

\* Layer::create_whiteout(parent, name), the lookup and the mknod it calls
\* included
Layer_create_whiteout(l, name, fault) ==
    Let([v \in {FsLookup(l, name, fault)} |->
      IF v.err = "OK" /\ is_whiteout(v.attr) THEN v
      ELSE IF v.err = "OK" /\ v.attr.ino # 0
      THEN [err |-> "EEXIST", attr |-> NegativeAttr,
            l |-> FsForget(v.l, v.attr.ino, 1)]
      ELSE IF v.err # "OK" /\ v.err # "ENOENT" THEN v
      ELSE FsMknod(v.l, name, "chr", 511, 0)])

\* Layer::delete_whiteout(parent, name), the lookup, the forget and the
\* unlink it calls included
Layer_delete_whiteout(l, name, fault) ==
    Let([v \in {FsLookup(l, name, fault)} |->
      IF v.err # "OK" THEN [err |-> v.err, l |-> v.l]
      ELSE Let([l1 \in {IF v.attr.ino # 0 THEN FsForget(v.l, v.attr.ino, 1)
                        ELSE v.l} |->
             IF is_whiteout(v.attr) THEN FsUnlink(l1, name)
             ELSE IF v.attr.ino # 0 THEN [err |-> "EINVAL", l |-> l1]
             ELSE [err |-> "OK", l |-> l1]])])

\* Layer::is_opaque(inode), the default and the one of PassthroughFs
Layer_is_opaque(l, ino) == [err |-> "OK", v |-> FALSE]

LayerReq(op, name, ino, fault, err) ==
    [op |-> op, name |-> name, ino |-> ino, fault |-> fault, err |-> err,
     before |-> objs,
     prev |-> [op |-> last.op, name |-> last.name, err |-> last.err]]

InitLayer ==
    /\ objs = <<>>
    /\ last = [op |-> "init", name |-> "", ino |-> 0, fault |-> "none",
               err |-> "OK", before |-> <<>>,
               prev |-> [op |-> "init", name |-> "", err |-> "OK"]]
    /\ nodes = <<>>
    /\ inodes = <<>>
    /\ deleted = <<>>
    /\ path_mapping = <<>>
    /\ nlinks = <<>>
    /\ next_inode = 1
    /\ inode_limit = InodeLimit
    /\ upper_layer = FALSE
    /\ served = 0
    /\ tasks = <<>>
    /\ copy = <<>>

UNCHANGED_overlay ==
    UNCHANGED <<nodes, inodes, deleted, path_mapping, nlinks, next_inode,
                inode_limit, upper_layer, served, tasks, copy>>

\* Filesystem::create / mkdir / mknod of the layer by its user, who drops the
\* reference of the reply: a file, a directory or a character device 0/1
LayerMake ==
    /\ \E name \in LayerNames, kind \in {"reg", "dir", "chr"} :
         \E r \in {FsMknod(objs, name, kind, 420, IF kind = "chr" THEN 1 ELSE 0)} :
           /\ objs' = (IF r.err = "OK" THEN FsForget(r.l, r.attr.ino, 1) ELSE r.l)
           /\ last' = LayerReq("make", name, r.attr.ino, "none", r.err)
    /\ UNCHANGED_overlay

\* Filesystem::forget by the holder of a reference
LayerForget ==
    /\ \E ino \in DOMAIN objs :
         /\ objs[ino].refs > 0
         /\ objs' = FsForget(objs, ino, 1)
         /\ last' = LayerReq("forget", "", ino, "none", "OK")
    /\ UNCHANGED_overlay

CreateWhiteout ==
    /\ \E name \in LayerNames, fault \in LookupFaults :
         \E r \in {Layer_create_whiteout(objs, name, fault)} :
           /\ \A o \in DOMAIN r.l : r.l[o].refs <= MaxRefs
           /\ objs' = r.l
           /\ last' = LayerReq("create_whiteout", name, r.attr.ino, fault, r.err)
    /\ UNCHANGED_overlay

DeleteWhiteout ==
    /\ \E name \in LayerNames, fault \in LookupFaults :
         \E r \in {Layer_delete_whiteout(objs, name, fault)} :
           /\ objs' = r.l
           /\ last' = LayerReq("delete_whiteout", name, 0, fault, r.err)
    /\ UNCHANGED_overlay

IsOpaque ==
    /\ \E ino \in DOMAIN objs :
         \E r \in {Layer_is_opaque(objs, ino)} :
           /\ objs' = objs
           /\ last' = LayerReq("is_opaque", objs[ino].name, ino, "none", r.err)
    /\ UNCHANGED_overlay

NextLayer ==
    \/ LayerMake
    \/ LayerForget
    \/ CreateWhiteout
    \/ DeleteWhiteout
    \/ IsOpaque

SpecLayer == InitLayer /\ [][NextLayer]_vars

\* C26: is_opaque of an inode that is no directory fails with ENOTDIR
C26_IsOpaqueNotDir ==
    (last.op = "is_opaque" /\ objs[last.ino].kind # "dir") =>
      last.err = "ENOTDIR"

\* what the name of the last request was before it: "absent", "whiteout" or
\* "other"
NameWas ==
    IF NamedIno(last.before, last.name) = 0 THEN "absent"
    ELSE IF is_whiteout(AttrOf(last.before, NamedIno(last.before, last.name)))
    THEN "whiteout" ELSE "other"

\* the layer of the last request but for one more reference on ino
SameButRef(ino) ==
    /\ DOMAIN objs = DOMAIN last.before
    /\ objs = [last.before EXCEPT ![ino].refs = @ + 1]

\* the last request made the inode last.ino and changed nothing else
MadeWhiteout ==
    /\ last.ino \in DOMAIN objs \ DOMAIN last.before
    /\ objs[last.ino] = [name |-> last.name, linked |-> TRUE, kind |-> "chr",
                         perm |-> 511, rdev |-> 0, refs |-> 1]
    /\ \A o \in DOMAIN last.before : o \in DOMAIN objs /\ objs[o] = last.before[o]
    /\ DOMAIN objs = DOMAIN last.before \cup {last.ino}

\* C27: create_whiteout returns a lookup error other than ENOENT unchanged;
\* over an absent name it makes a character device 0/0 of mode 0777 (or
\* returns the error of mknod); over a whiteout it succeeds and makes nothing;
\* over another entry it fails with EEXIST, makes nothing and leaves the
\* lookup counts as they were.  delete_whiteout of an entry that is no
\* whiteout fails with EINVAL and unlinks nothing, and after a create_whiteout
\* that succeeded, delete_whiteout of the same name leaves the name absent
C27_Whiteouts ==
    /\ (last.op = "create_whiteout" /\ last.fault = "EACCES") =>
         last.err = "EACCES" /\ objs = last.before
    /\ (last.op = "create_whiteout" /\ last.fault # "EACCES") =>
         CASE NameWas = "absent" ->
                \/ last.err = "OK" /\ MadeWhiteout
                \/ /\ last.err = "ENOSPC"
                   /\ LayerInos \subseteq DOMAIN last.before
                   /\ objs = last.before
           [] NameWas = "whiteout" ->
                /\ last.err = "OK"
                /\ last.ino = NamedIno(last.before, last.name)
                /\ SameButRef(last.ino)
           [] NameWas = "other" ->
                last.err = "EEXIST" /\ objs = last.before
    /\ (last.op = "delete_whiteout" /\ last.fault # "EACCES"
          /\ NameWas = "other") =>
         last.err = "EINVAL" /\ objs = last.before
    /\ (last.op = "delete_whiteout" /\ NameWas # "whiteout") =>
         objs = last.before
    /\ (last.op = "delete_whiteout" /\ last.fault # "EACCES"
          /\ last.prev.op = "create_whiteout" /\ last.prev.err = "OK"
          /\ last.prev.name = last.name) =>
         last.err = "OK" /\ NamedIno(objs, last.name) = 0

\* a whiteout was made over an absent name, then deleted again
C27_Witness ==
    /\ last.op = "delete_whiteout"
    /\ last.err = "OK"
    /\ last.prev.op = "create_whiteout"
    /\ last.prev.name = last.name
    /\ NameWas = "whiteout"
    /\ NamedIno(objs, last.name) = 0
    /\ \E o \in DOMAIN objs : objs[o].linked /\ objs[o].kind = "reg"

---------------------------------------------------------------------------
(* The locks.  Every handler is the sequence of the lock acquisitions and  *)
(* releases of its body, in the order of the source and with the scopes of *)
(* its guards (a guard that is a temporary lives to the end of its         *)
(* statement).  The InodeStore and the path and name of a node are tokio   *)
(* RwLocks, the rest are tokio Mutexes; both serve their waiters first     *)
(* come first served, so a reader that arrives after a waiting writer      *)
(* waits behind it.  Locks of a node that no other task can reach yet (a   *)
(* node under construction, a local Mutex) are left out.                   *)
(* The nodes: the directory P, its child S, a file in the upper layer that *)
(* has more than one name (it was hard-linked), and its child W, a         *)
(* whiteout.                                                               *)

LockTasks == 1..3
NodeP == "P"
NodeS == "S"
NodeW == "W"

Acq(kind, n) == <<"acq", <<kind, n>>, "w">>
AcqRead(kind, n) == <<"acq", <<kind, n>>, "r">>
Rel(kind, n) == <<"rel", <<kind, n>>, "">>

\* lookup_node(parent, name): get_active_inode, stat64, child
Locks_lookup_node(p) ==
    <<AcqRead("inodes", ""), Rel("inodes", ""),
      Acq("real_inodes", p), Rel("real_inodes", p),
      Acq("children", p), Rel("children", p)>>

\* load_directory(node) of an unloaded directory: scan_childrens (stat64,
\* the walk over real_inodes, the paths of the children), then the
\* InodeStore and the children of the node, held together to the end
Locks_load_directory(d) ==
    <<Acq("real_inodes", d), Rel("real_inodes", d),
      Acq("real_inodes", d), Rel("real_inodes", d),
      AcqRead("path", d), Rel("path", d),
      Acq("inodes", ""), Acq("children", d),
      Rel("children", d), Rel("inodes", "")>>

\* do_mkdir(parent, name) over no node, after its lookup and with the parent
\* in the upper layer: the path of the parent, then inside
\* handle_upper_inode_locked alloc_inode, then insert_inode and insert_child.
\* do_mknod over no node takes the same locks in the same order.
Locks_do_mkdir(p) ==
    <<AcqRead("path", p), Rel("path", p),
      Acq("real_inodes", p),
        Acq("inodes", ""), Rel("inodes", ""),
      Rel("real_inodes", p),
      Acq("inodes", ""), Rel("inodes", ""),
      Acq("children", p), Rel("children", p)>>

\* do_mknod(parent, name) over the whiteout node n: inside
\* handle_upper_inode_locked of the parent, in_upper_layer and
\* add_upper_inode of n
Locks_do_mknod(p, n) ==
    <<Acq("real_inodes", p),
        Acq("real_inodes", n), Rel("real_inodes", n),
        Acq("real_inodes", n), Rel("real_inodes", n),
      Rel("real_inodes", p)>>

\* do_rm(parent, name) of the file n that has a lower representation:
\* upper_layer_only, in_upper_layer, the layer's unlink inside
\* handle_upper_inode_locked, remove_child, remove_inode, then the whiteout:
\* inside handle_upper_inode_locked the path of the parent, alloc_inode,
\* insert_inode and insert_child
Locks_do_rm(p, n) ==
    <<Acq("real_inodes", n), Rel("real_inodes", n),
      Acq("real_inodes", n), Rel("real_inodes", n),
      Acq("real_inodes", p), Rel("real_inodes", p),
      Acq("children", p), Rel("children", p),
      AcqRead("path", n), Rel("path", n),
      Acq("inodes", ""), Rel("inodes", ""),
      Acq("real_inodes", p),
        AcqRead("path", p), Rel("path", p),
        Acq("inodes", ""), Rel("inodes", ""),
        Acq("inodes", ""), Rel("inodes", ""),
        Acq("children", p), Rel("children", p),
      Rel("real_inodes", p)>>

\* forget_one(inode) that drops the last lookup of n: get_all_inode,
\* remove_inode, then the parent pointer of n, held while the name of n is
\* read and remove_child locks the children of the parent
Locks_forget_one(p, n) ==
    <<AcqRead("inodes", ""), Rel("inodes", ""),
      Acq("inodes", ""), Rel("inodes", ""),
      Acq("parent", n),
        AcqRead("name", n),
          Acq("children", p), Rel("children", p),
        Rel("name", n),
      Rel("parent", n)>>

\* do_rename of n inside p, after the layer's rename: remove_child, then
\* remove_inode called with a path read while the read guard lives, the new
\* path, the writes of path, name and parent, insert_child, and insert_inode,
\* which reads the path of n under the InodeStore lock
Locks_do_rename(p, n) ==
    <<Acq("children", p), Rel("children", p),
      AcqRead("path", n),
        Acq("inodes", ""), Rel("inodes", ""),
      Rel("path", n),
      AcqRead("path", p), Rel("path", p),
      Acq("path", n), Rel("path", n),
      Acq("name", n), Rel("name", n),
      Acq("parent", n), Rel("parent", n),
      Acq("children", p), Rel("children", p),
      Acq("inodes", ""),
        AcqRead("path", n), Rel("path", n),
      Rel("inodes", "")>>

\* do_link(src, new_parent, name) over no node, both in the upper layer:
\* stat64 and first_layer_inode of src, the layer's link inside
\* handle_upper_inode_locked, insert_inode (the path of src under the
\* InodeStore lock), insert_child
Locks_do_link(n, p) ==
    <<Acq("real_inodes", n), Rel("real_inodes", n),
      Acq("real_inodes", n), Rel("real_inodes", n),
      Acq("real_inodes", p), Rel("real_inodes", p),
      Acq("inodes", ""),
        AcqRead("path", n), Rel("path", n),
      Rel("inodes", ""),
      Acq("children", p), Rel("children", p)>>

LockOps ==
    <<"lookup", "load_directory", "mkdir", "mknod", "unlink", "forget",
      "rename", "link">>

LocksOfOp(op) ==
    CASE op = "lookup" -> Locks_lookup_node(NodeP)
      [] op = "load_directory" -> Locks_load_directory(NodeP)
      [] op = "mkdir" -> Locks_do_mkdir(NodeP)
      [] op = "mknod" -> Locks_do_mknod(NodeP, NodeW)
      [] op = "unlink" -> Locks_do_rm(NodeP, NodeS)
      [] op = "forget" -> Locks_forget_one(NodeP, NodeS)
      [] op = "rename" -> Locks_do_rename(NodeP, NodeS)
      [] op = "link" -> Locks_do_link(NodeS, NodeP)

\* handler -> its steps
LocksOf == [op \in {LockOps[i] : i \in 1..Len(LockOps)} |-> LocksOfOp(op)]

\* the step that task t is at, <<"done">> after the last
StepOf(t) ==
    IF tasks[t].pc > Len(LocksOf[tasks[t].op]) THEN <<"done", <<"", "">>, "">>
    ELSE LocksOf[tasks[t].op][tasks[t].pc]

WaitsFor(t, lock) == tasks[t].wait /\ StepOf(t)[2] = lock

\* a lock can be given in mode m when no other guard excludes it: readers
\* share, a writer and a Mutex exclude all
Compatible(lock, m) ==
    \A u \in LockTasks : \A h \in tasks[u].held :
      h[1] = lock => (m = "r" /\ h[2] = "r")

CanAcquire(t) ==
    /\ tasks[t].wait
    /\ tasks[t].ahead = {}
    /\ Compatible(StepOf(t)[2], StepOf(t)[3])

\* the tasks run handlers in every combination; the tasks are alike, so one
\* order of each combination is enough
InitLocks ==
    /\ \E ops \in [LockTasks -> 1..Len(LockOps)] :
         /\ \A t \in LockTasks : t + 1 \in LockTasks => ops[t] <= ops[t + 1]
         /\ tasks = [t \in LockTasks |->
                       [op |-> LockOps[ops[t]], pc |-> 1, held |-> {},
                        wait |-> FALSE, ahead |-> {}]]
    /\ last = [op |-> "locks"]
    /\ objs = <<>>
    /\ nodes = <<>>
    /\ inodes = <<>>
    /\ deleted = <<>>
    /\ path_mapping = <<>>
    /\ nlinks = <<>>
    /\ next_inode = 1
    /\ inode_limit = InodeLimit
    /\ upper_layer = TRUE
    /\ served = 0
    /\ copy = <<>>

UNCHANGED_data ==
    UNCHANGED <<nodes, inodes, deleted, path_mapping, nlinks, next_inode,
                inode_limit, objs, upper_layer, last, served, copy>>

\* lock().await, read().await, write().await: the task joins the waiters of
\* the lock, behind those that wait already
LockRequest ==
    /\ \E t \in LockTasks :
         /\ StepOf(t)[1] = "acq"
         /\ ~tasks[t].wait
         /\ tasks' = [tasks EXCEPT
                        ![t].wait = TRUE,
                        ![t].ahead = {u \in LockTasks \ {t} :
                                        WaitsFor(u, StepOf(t)[2])}]
    /\ UNCHANGED_data

\* the first waiter gets the lock when the guards that are out allow it
LockGrant ==
    /\ \E t \in LockTasks :
         /\ CanAcquire(t)
         /\ tasks' = [u \in LockTasks |->
                        IF u = t
                        THEN [tasks[t] EXCEPT
                                !.wait = FALSE, !.pc = @ + 1,
                                !.held = @ \cup {<<StepOf(t)[2], StepOf(t)[3]>>}]
                        ELSE [tasks[u] EXCEPT !.ahead = @ \ {t}]]
    /\ UNCHANGED_data

\* the guard is dropped
LockRelease ==
    /\ \E t \in LockTasks :
         /\ StepOf(t)[1] = "rel"
         /\ tasks' = [tasks EXCEPT
                        ![t].pc = @ + 1,
                        ![t].held = {h \in @ : h[1] # StepOf(t)[2]}]
    /\ UNCHANGED_data

NextLocks ==
    \/ LockRequest
    \/ LockGrant
    \/ LockRelease

SpecLocks == InitLocks /\ [][NextLocks]_vars

\* the place of a lock in the order InodeStore, parent.children,
\* node.children, node.real_inodes, node.path / node.name; 0 for the parent
\* pointer, which the order does not name
LockRank(lock) ==
    CASE lock[1] = "inodes" -> 1
      [] lock[1] = "children" -> IF lock[2] = NodeP THEN 2 ELSE 3
      [] lock[1] = "real_inodes" -> 4
      [] lock[1] \in {"path", "name"} -> 5
      [] OTHER -> 0

\* C28: a task that requests a lock holds no lock that is later in the
\* order, and holds no lock of a child when the lock is one of the parent
C28_LockOrder ==
    \A t \in LockTasks :
      StepOf(t)[1] = "acq" =>
        \A h \in tasks[t].held :
          /\ (LockRank(h[1]) # 0 /\ LockRank(StepOf(t)[2]) # 0) =>
               LockRank(h[1]) <= LockRank(StepOf(t)[2])
          /\ ~(h[1][2] \in {NodeS, NodeW} /\ StepOf(t)[2][2] = NodeP)

\* some task waits, and no task can take a step
LocksStuck ==
    /\ \E t \in LockTasks : tasks[t].wait
    /\ \A t \in LockTasks :
         StepOf(t)[1] = "done" \/ (tasks[t].wait /\ ~CanAcquire(t))

\* C29: no state is reached in which tasks wait on each other's locks for
\* ever
C29_NoDeadlock == ~LocksStuck

---------------------------------------------------------------------------
(* Concurrent load_directory calls on one unloaded directory, /a.  A task  *)
(* holds the InodeStore write lock from "lock_children" on and the         *)
(* children lock of the directory from "recheck" on, until it is done.     *)

LoadTasks == 1..3

\* lower /a with /a/a and /a/b
LayoutLower == (3 :> LowerObj("dir", LowerRoot, "a")) @@
               (4 :> LowerObj("reg", 3, "a")) @@
               (5 :> LowerObj("reg", 3, "b"))
\* lower /a with /a/a, upper /a with /a/a and /a/b
LayoutBoth == (3 :> LowerObj("dir", LowerRoot, "a")) @@
              (4 :> LowerObj("reg", 3, "a")) @@
              (5 :> Obj("upper", "dir", UpperRoot, "a")) @@
              (6 :> Obj("upper", "reg", 5, "a")) @@
              (7 :> Obj("upper", "reg", 5, "b"))

\* the node of /a
LoadDir == CHOOSE n \in DOMAIN nodes : nodes[n].path = <<"a">>

HoldsStore(t) ==
    tasks[t].pc \in {"lock_children", "recheck", "populate", "store", "unlock"}
HoldsChildren(t) ==
    tasks[t].pc \in {"recheck", "populate", "store", "unlock"}

\* load_directory without the second look at loaded
Recheck_never(s, n) == FALSE

\* load_directory: the second `if node.loaded.load(Ordering::Relaxed)`,
\* under the two locks
Recheck(s, n) == s.nodes[n].loaded

\* one round of the loop of load_directory: alloc_inode, the child node,
\* insert into the children, insert_inode
LoadOne(s, n, all, name) ==
    LET path == Append(s.nodes[n].path, name)
    IN Let([a \in {alloc_inode(s, path)} |->
         IF a.err # "OK" THEN R(a.st, a.err)
         ELSE IF FreeNodes(a.st) = {} THEN R(a.st, "EIO")
         ELSE
           Let([c \in {Min(FreeNodes(a.st))} |->
             Let([new \in {[new_from_real_inodes(a.st, name, a.ino, path, all[name])
                              EXCEPT !.parent = n]} |->
               Let([s1 \in {[a.st EXCEPT !.nodes = MapPut(@, c, new)]} |->
                 Let([s2 \in {insert_child(s1, n, name, c)} |->
                   RN(insert_inode(s2, a.ino, c), c)])])])])])

InitLoad ==
    \E layout \in {LayoutLower, LayoutBoth} :
      \E s \in {import(TRUE, layout, MapOrder)} :
        /\ nodes = s.nodes
        /\ inodes = s.inodes
        /\ deleted = s.deleted
        /\ path_mapping = s.path_mapping
        /\ nlinks = s.nlinks
        /\ next_inode = s.next_inode
        /\ inode_limit = s.inode_limit
        /\ objs = s.objs
        /\ upper_layer = TRUE
        /\ last = [op |-> "load_directory"]
        /\ served = 0
        /\ copy = <<>>
        /\ tasks = [t \in LoadTasks |->
                      [pc |-> "start", all |-> <<>>, ord |-> <<>>, i |-> 1,
                       err |-> "OK"]]

\* `if node.loaded.load(Ordering::Relaxed) { return Ok(()) }`
LoadCheck ==
    /\ \E t \in LoadTasks :
         /\ tasks[t].pc = "start"
         /\ tasks' = [tasks EXCEPT ![t].pc = IF nodes[LoadDir].loaded
                                             THEN "done" ELSE "scan"]
    /\ UNCHANGED <<nodes, inodes, deleted, path_mapping, nlinks, next_inode,
                   inode_limit, objs, upper_layer, last, served, copy>>

\* `node.scan_childrens(ctx).await?`: the children as nodes without numbers,
\* in the order of the task's HashMap
LoadScan ==
    /\ \E t \in LoadTasks, ord \in NameOrders :
         /\ tasks[t].pc = "scan"
         /\ \E sc \in {scan_childrens(St(ord), LoadDir)} :
              tasks' = [tasks EXCEPT
                          ![t].pc = IF sc.err = "OK" THEN "lock_store" ELSE "done",
                          ![t].all = sc.all, ![t].ord = ord, ![t].err = sc.err]
    /\ UNCHANGED <<nodes, inodes, deleted, path_mapping, nlinks, next_inode,
                   inode_limit, objs, upper_layer, last, served, copy>>

\* `self.inodes.write().await`
LoadLockStore ==
    /\ \E t \in LoadTasks :
         /\ tasks[t].pc = "lock_store"
         /\ \A u \in LoadTasks : ~HoldsStore(u)
         /\ tasks' = [tasks EXCEPT ![t].pc = "lock_children"]
    /\ UNCHANGED <<nodes, inodes, deleted, path_mapping, nlinks, next_inode,
                   inode_limit, objs, upper_layer, last, served, copy>>

\* `node.childrens.lock().await`
LoadLockChildren ==
    /\ \E t \in LoadTasks :
         /\ tasks[t].pc = "lock_children"
         /\ \A u \in LoadTasks : ~HoldsChildren(u)
         /\ tasks' = [tasks EXCEPT ![t].pc = "recheck"]
    /\ UNCHANGED <<nodes, inodes, deleted, path_mapping, nlinks, next_inode,
                   inode_limit, objs, upper_layer, last, served, copy>>

\* the second look at loaded; served counts the tasks that go on to populate
LoadRecheck ==
    /\ \E t \in LoadTasks :
         /\ tasks[t].pc = "recheck"
         /\ \E seen \in {Recheck(St(MapOrder), LoadDir)} :
              /\ tasks' = [tasks EXCEPT ![t].pc = IF seen THEN "done"
                                                  ELSE "populate"]
              /\ served' = IF seen THEN served ELSE served + 1
    /\ UNCHANGED <<nodes, inodes, deleted, path_mapping, nlinks, next_inode,
                   inode_limit, objs, upper_layer, last, copy>>

\* one child of the loop; an error of alloc_inode returns, loaded left false
LoadPopulate ==
    /\ \E t \in LoadTasks :
         /\ tasks[t].pc = "populate"
         /\ tasks[t].i <= Len(tasks[t].ord)
         /\ IF tasks[t].ord[tasks[t].i] \notin DOMAIN tasks[t].all
            THEN /\ tasks' = [tasks EXCEPT ![t].i = @ + 1]
                 /\ UNCHANGED <<nodes, inodes, path_mapping, nlinks, next_inode>>
            ELSE \E r \in {LoadOne(St(tasks[t].ord), LoadDir, tasks[t].all,
                                   tasks[t].ord[tasks[t].i])} :
                   /\ nodes' = r.st.nodes
                   /\ inodes' = r.st.inodes
                   /\ path_mapping' = r.st.path_mapping
                   /\ nlinks' = r.st.nlinks
                   /\ next_inode' = r.st.next_inode
                   /\ tasks' = [tasks EXCEPT
                                  ![t].i = @ + 1, ![t].err = r.err,
                                  ![t].pc = IF r.err = "OK" THEN "populate"
                                            ELSE "unlock"]
    /\ UNCHANGED <<deleted, inode_limit, objs, upper_layer, last, served, copy>>

\* `node.loaded.store(true, Ordering::Relaxed)`
LoadStore ==
    /\ \E t \in LoadTasks :
         /\ tasks[t].pc = "populate"
         /\ tasks[t].i > Len(tasks[t].ord)
         /\ nodes' = [nodes EXCEPT ![LoadDir].loaded = TRUE]
         /\ tasks' = [tasks EXCEPT ![t].pc = "unlock"]
    /\ UNCHANGED <<inodes, deleted, path_mapping, nlinks, next_inode,
                   inode_limit, objs, upper_layer, last, served, copy>>

\* the guards are dropped at the return
LoadUnlock ==
    /\ \E t \in LoadTasks :
         /\ tasks[t].pc = "unlock"
         /\ tasks' = [tasks EXCEPT ![t].pc = "done"]
    /\ UNCHANGED <<nodes, inodes, deleted, path_mapping, nlinks, next_inode,
                   inode_limit, objs, upper_layer, last, served, copy>>

NextLoad ==
    \/ LoadCheck
    \/ LoadScan
    \/ LoadLockStore
    \/ LoadLockChildren
    \/ LoadRecheck
    \/ LoadPopulate
    \/ LoadStore
    \/ LoadUnlock

SpecLoad == InitLoad /\ [][NextLoad]_vars

\* the names that the layers hold in /a
LayerNamesOfDir == DOMAIN scan_childrens(St(MapOrder), LoadDir).all

\* the nodes that were made for the child name of /a
NodesOfChild(name) ==
    {n \in DOMAIN nodes : nodes[n].parent = LoadDir /\ nodes[n].name = name}

\* at most one call populates /a: every child name has at most one node and
\* one inode number, with nlink = 1, and once loaded is true the children are
\* all there, each under its number in the store
PopulatedOnce ==
    /\ served <= 1
    /\ \A name \in Names :
         /\ Cardinality(NodesOfChild(name)) <= 1
         /\ \A n \in NodesOfChild(name) :
              /\ name \in DOMAIN nodes[LoadDir].childrens
              /\ nodes[LoadDir].childrens[name] = n
              /\ nodes[n].inode \in DOMAIN inodes
              /\ inodes[nodes[n].inode] = n
              /\ nlinks[nodes[n].inode] = 1
              /\ \A m \in DOMAIN nodes :
                   nodes[m].inode = nodes[n].inode => m = n
    /\ (nodes[LoadDir].loaded =>
          (/\ DOMAIN nodes[LoadDir].childrens = LayerNamesOfDir
           /\ \A name \in LayerNamesOfDir : NodesOfChild(name) # {}))

\* C30: whatever the number of concurrent load_directory calls on /a, its
\* children are populated exactly once (one node and one number for each
\* child name, insert_inode once for each, nlink = 1), who sees loaded = true
\* sees all the children, and loaded never goes back to false
C30_LoadedOnce ==
    /\ []PopulatedOnce
    /\ [][nodes[LoadDir].loaded => nodes'[LoadDir].loaded]_vars

\* three calls ran together: one populated /a with its two children, the
\* others came to the second look at loaded and returned
C30_Witness ==
    /\ \A t \in LoadTasks : tasks[t].pc = "done" /\ tasks[t].all # <<>>
    /\ served = 1
    /\ nodes[LoadDir].loaded
    /\ DOMAIN nodes[LoadDir].childrens = {"a", "b"}

---------------------------------------------------------------------------
(* The lookup references of the layers *)

\* some RealInode holds the layer inode o
Owned(o) ==
    \E n \in DOMAIN nodes : \E i \in 1..Len(nodes[n].real_inodes) :
      nodes[n].real_inodes[i].inode = o

\* the whiteouts that the upper directory of the parent of the last request
\* holds under the name of the request
WhiteoutsAtName ==
    IF last.ino \notin DOMAIN inodes THEN {}
    ELSE {o \in DOMAIN objs :
            /\ objs[o].kind = "wh" /\ objs[o].linked
            /\ objs[o].name = last.name
            /\ nodes[inodes[last.ino]].real_inodes # <<>>
            /\ objs[o].parent = nodes[inodes[last.ino]].real_inodes[1].inode}

\* C31: every lookup reference that a layer hands out is owned by one
\* RealInode, which releases it when it is destroyed; so the whiteout that a
\* rename has just made at the old name, whose entry came with a reference,
\* is held by a RealInode
C31_RenameWhiteoutOwned ==
    (last.op = "rename" /\ last.err = "OK") =>
      \A o \in WhiteoutsAtName : Owned(o)

---------------------------------------------------------------------------
(* copy_node_up on any node *)

\* lower /a (a named pipe): neither directory, regular file nor link
LayoutFifo == (3 :> LowerObj("fifo", LowerRoot, "a"))

\* mounted, with the directory /a (if any) loaded, and two tasks that are
\* about to call copy_node_up, each on any node: the root (in the upper
\* layer already), a node of the lower layers, a named pipe
InitCopyUpAny ==
    \E layout \in CopyUpLayouts \cup {LayoutFifo} :
      \E s \in {lookup_node(import(TRUE, layout, MapOrder), 2, "").st} :
        /\ nodes = s.nodes
        /\ inodes = s.inodes
        /\ deleted = s.deleted
        /\ path_mapping = s.path_mapping
        /\ nlinks = s.nlinks
        /\ next_inode = s.next_inode
        /\ inode_limit = s.inode_limit
        /\ objs = s.objs
        /\ upper_layer = TRUE
        /\ last = Req("import", 0, "", "OK")
        /\ served = 0
        /\ copy = <<>>
        /\ \E target \in [TaskIds -> DOMAIN s.nodes] :
              tasks = [t \in TaskIds |->
                         [target |-> target[t],
                          stack |-> <<Frame("copy_node_up", target[t])>>,
                          result |-> "", made |-> {}]]

SpecCopyUpAny == InitCopyUpAny /\ [][NextCopyUp]_vars

\* what the node n is, by the element of its real_inodes that stat64 reads
KindOfNode(n) == stat64(St(MapOrder), n)

\* the step has changed the real_inodes of n as a copy-up of its kind does
Promoted(n) ==
    /\ Len(nodes'[n].real_inodes) >= 1
    /\ nodes'[n].real_inodes[1].in_upper_layer
    /\ nodes'[n].real_inodes[1].layer = "upper"
    /\ KindOfNode(n) \in {"dir", "reg", "lnk"}
    /\ IF KindOfNode(n) = "dir"
       THEN Tail(nodes'[n].real_inodes) = nodes[n].real_inodes
       ELSE Len(nodes'[n].real_inodes) = 1

\* the objects of the upper layer
UpperObjs == {o \in DOMAIN objs : objs[o].layer = "upper"}

\* C34: a step of copy_node_up changes of a node nothing but its
\* real_inodes (inode number, path, name, parent, lookup count, children and
\* flags stay): a directory gets the new upper RealInode at index 0 with the
\* previous ones behind it in order, a regular file or a symbolic link gets
\* the list of the upper RealInode alone; the step of a copy_node_up whose
\* node is in the upper layer already returns Ok and makes nothing in a
\* layer, and for a node of any other kind it returns EINVAL; neither
\* changes any real_inodes.
C34_CopyUpFrame ==
    [][/\ DOMAIN nodes' = DOMAIN nodes
       /\ \A n \in DOMAIN nodes :
            \/ nodes'[n] = nodes[n]
            \/ /\ nodes'[n] = [nodes[n] EXCEPT
                                 !.real_inodes = nodes'[n].real_inodes]
               /\ Promoted(n)
       /\ \A t \in TaskIds :
            (/\ Running(t)
             /\ Top(t).op = "copy_node_up"
             /\ tasks'[t] # tasks[t])
            => /\ in_upper_layer(St(MapOrder), Top(t).node) =>
                    /\ ~Running(t)'
                    /\ tasks'[t].result = "OK"
                    /\ nodes' = nodes
                    /\ objs' = objs
               /\ (/\ ~in_upper_layer(St(MapOrder), Top(t).node)
                   /\ KindOfNode(Top(t).node) \notin {"dir", "reg", "lnk", "ENOENT"})
                  => /\ ~Running(t)'
                     /\ tasks'[t].result = "EINVAL"
                     /\ nodes' = nodes
                     /\ objs' = objs
      ]_vars

\* C34 witness: all has returned; one task was given the root and made
\* nothing, the other was given a directory of the lower layer that now has
\* its upper RealInode in front of the lower one
C34_Witness ==
    /\ tasks # <<>>
    /\ AllReturned
    /\ \E t \in TaskIds :
         /\ tasks[t].target = inodes[RootInode]
         /\ tasks[t].result = "OK"
         /\ tasks[t].made = {}
         /\ tasks[3 - t].result = "OK"
         /\ Len(nodes[tasks[3 - t].target].real_inodes) = 2
         /\ nodes[tasks[3 - t].target].real_inodes[1].in_upper_layer
         /\ ~nodes[tasks[3 - t].target].real_inodes[2].in_upper_layer

\* a named pipe was given to copy_node_up, which has refused it
C34_RefusedSeen ==
    /\ tasks # <<>>
    /\ \E t \in TaskIds :
         /\ tasks[t].result = "EINVAL"
         /\ KindOfNode(tasks[t].target) = "fifo"

---------------------------------------------------------------------------
(* The link counters of the InodeStore *)

\* C35: no nlink counter of the InodeStore goes below zero: a remove_inode
\* of an inode number whose counter is 0 (a forget that reaches zero on a
\* node that an unlink has moved to the deleted map, a second removal of a
\* name) leaves the counter at 0, it does not wrap to 2^64 - 1.
C35_NlinkNotBelowZero ==
    \A K \in DOMAIN nlinks : nlinks[K] # U64Max

---------------------------------------------------------------------------
(* stat64 over layers whose getattr fails *)

\* what getattr of a layer answers for the inode of one RealInode: the
\* attributes, an error with a raw errno, or an error that has none
\* ("other": an io::Error that is not built from an errno)
GetattrOutcomes == {"OK", "ENOENT", "ENAMETOOLONG", "EIO", "EACCES", "other"}

raw_os_error(e) == IF e = "other" THEN <<>> ELSE <<e>>

\* RealInode::stat64_ignore_enoent on a RealInode whose getattr answers out:
\* [err, v] with v = <<>> for None
stat64_ignore_enoent(out) ==
    IF out = "OK" THEN [err |-> "OK", v |-> <<"attr">>]
    ELSE IF raw_os_error(out) # <<>>
    THEN IF raw_os_error(out)[1] # "ENOENT" \/ raw_os_error(out)[1] # "ENAMETOOLONG"
         THEN [err |-> "OK", v |-> <<>>]
         ELSE [err |-> out, v |-> <<>>]
    ELSE [err |-> out, v |-> <<>>]

\* OverlayInode::stat64 over the real_inodes whose getattr answers outs, in
\* order: [err, index] with the index of the RealInode that answered
RECURSIVE StatFrom(_, _)
StatFrom(outs, i) ==
    IF i > Len(outs) THEN [err |-> "ENOENT", index |-> 0]
    ELSE Let([r \in {stat64_ignore_enoent(outs[i])} |->
           IF r.err # "OK" THEN [err |-> r.err, index |-> 0]
           ELSE IF r.v # <<>> THEN [err |-> "OK", index |-> i]
           ELSE StatFrom(outs, i + 1)])

InitStat ==
    \E n \in 1..MaxRis : \E outs \in [1..n -> GetattrOutcomes] :
      /\ last = [op |-> "input", outs |-> outs, err |-> "OK", v |-> <<>>,
                 index |-> 0]
      /\ objs = <<>>
      /\ nodes = <<>>
      /\ inodes = <<>>
      /\ deleted = <<>>
      /\ path_mapping = <<>>
      /\ nlinks = <<>>
      /\ next_inode = 1
      /\ inode_limit = InodeLimit
      /\ upper_layer = FALSE
      /\ served = 0
      /\ tasks = <<>>
      /\ copy = <<>>

\* stat64_ignore_enoent of the first RealInode
StatReal ==
    /\ last.op = "input"
    /\ \E r \in {stat64_ignore_enoent(last.outs[1])} :
         last' = [op |-> "stat64_ignore_enoent", outs |-> last.outs,
                  err |-> r.err, v |-> r.v, index |-> 0]
    /\ served' = served + 1
    /\ UNCHANGED <<nodes, inodes, deleted, path_mapping, nlinks, next_inode,
                   inode_limit, objs, upper_layer, tasks, copy>>

\* OverlayInode::stat64
StatNode ==
    /\ last.op = "input"
    /\ \E r \in {StatFrom(last.outs, 1)} :
         last' = [op |-> "stat64", outs |-> last.outs,
                  err |-> r.err, v |-> <<>>, index |-> r.index]
    /\ served' = served + 1
    /\ UNCHANGED <<nodes, inodes, deleted, path_mapping, nlinks, next_inode,
                   inode_limit, objs, upper_layer, tasks, copy>>

NextStat ==
    \/ StatReal
    \/ StatNode

SpecStat == InitStat /\ [][NextStat]_vars

\* C33: a getattr of a layer that fails with an errno other than ENOENT
\* (EIO, EACCES) is returned unchanged by stat64_ignore_enoent, and by
\* OverlayInode::stat64 when it is the first RealInode that fails so; it is
\* not turned into None.
C33_GetattrErrorKept ==
    (/\ last.op \in {"stat64_ignore_enoent", "stat64"}
     /\ last.outs[1] \in {"EIO", "EACCES"})
    => last.err = last.outs[1]

---------------------------------------------------------------------------
(* What a removal leaves in the upper layer *)

\* the directory node D has, in one of its lower layers, an entry at name
LowerHolds(D, name) ==
    \E i \in 1..Len(nodes[D].real_inodes) :
       /\ ~nodes[D].real_inodes[i].in_upper_layer
       /\ LayerLookup(St(MapOrder), nodes[D].real_inodes[i].inode, name) # 0

\* the upper directory of D is opaque or holds a whiteout at name
MaskedInUpper(D, name) ==
    /\ in_upper_layer(St(MapOrder), D)
    /\ \E u \in {nodes[D].real_inodes[1].inode} :
         \/ objs[u].opaque
         \/ \E w \in {LayerLookup(St(MapOrder), u, name)} :
              w # 0 /\ objs[w].kind = "wh"

\* C37: after an unlink or rmdir that succeeded, if a lower layer of the
\* parent holds an entry at the name, the parent's upper directory holds a
\* whiteout at the name (or is opaque); also when the node had been copied
\* up before, so that its real_inodes held the upper RealInode alone.  (The
\* removal of a node that stands for a whiteout of the upper layer is left
\* out.)
C37_RemovedIsMasked ==
    (/\ last.op \in {"unlink", "rmdir"}
     /\ last.err = "OK"
     /\ last.ino \in DOMAIN inodes
     /\ last.src \in DOMAIN nodes
     /\ nodes[last.src].real_inodes # <<>>
     /\ objs[nodes[last.src].real_inodes[1].inode].kind # "wh"
     /\ LowerHolds(inodes[last.ino], last.name))
    => MaskedInUpper(inodes[last.ino], last.name)

---------------------------------------------------------------------------
(* The inode numbers of the live nodes *)

\* the nodes that the active map or the deleted map holds, and the nodes
\* that the children maps lead to from them
LiveNodes == Closure(St(MapOrder), Range(inodes) \cup Range(deleted))

\* C36: two distinct live nodes (held by a children map, by the active map
\* or by the deleted map) have different inode numbers.
C36_UniqueInodeNumbers ==
    \A m, n \in LiveNodes : m # n => nodes[m].inode # nodes[n].inode

---------------------------------------------------------------------------
(* A lookup that races with a forget *)

\* the forgets among the tasks that name a node
NodeForgets ==
    {t \in CountTasks : tasks[t].ask.op = "forget"
                        /\ tasks[t].ask.ino \notin {0, RootInode, InodeLimit}}

\* no forget takes more lookups than the count of the node it read
ForgetsHeld ==
    \A t \in NodeForgets :
        tasks[t].pc \in {"check", "done"} => tasks[t].ask.count <= tasks[t].current

\* the InodeStore resolves the number of the node v to v
Resolvable(v) ==
    \/ nodes[v].inode \in DOMAIN inodes /\ inodes[nodes[v].inode] = v
    \/ nodes[v].inode \in DOMAIN deleted /\ deleted[nodes[v].inode] = v

\* C39: in every interleaving of lookups of a name with a forget of the
\* node of the name, a node that a lookup has returned and whose lookup
\* count is above zero is resolvable in the InodeStore (active or deleted
\* map): a forget that brings the count to zero between the resolution and
\* the increment of the lookup leaves the kernel no number of a removed
\* node.
C39_LookupResolvable ==
    \A t \in CountTasks :
        (/\ ForgetsHeld
         /\ tasks[t].ask.op = "lookup"
         /\ tasks[t].pc = "done"
         /\ tasks[t].err = "OK"
         /\ nodes[tasks[t].node].lookups >= 1)
        => Resolvable(tasks[t].node)

---------------------------------------------------------------------------
(* The merged view across a forget *)

\* the root shows the name: a lookup of it succeeds and readdir lists it
SeenAt(name) ==
    /\ do_lookup(St(MapOrder), RootInode, name).err = "OK"
    /\ name \in Listed(RootInode)

\* C40: a forget never changes the merged view: a name of the root that a
\* lookup finds and readdir lists before a forget (of no more lookups than
\* the node has) is found and listed after it, also when the forget brings
\* the count of the name's node to zero while the root stays loaded.
C40_ForgetKeepsView ==
    [][(/\ last'.op = "forget"
        /\ last'.was >= 1
        /\ last'.arg <= last'.was)
       => \A name \in Names : SeenAt(name) => SeenAt(name)']_vars

---------------------------------------------------------------------------
(* do_rm step by step: two removals of one name, and cancellation *)

RmTasks == 1..2

\* upper /a (regular)
LayoutUpperFile == (3 :> Obj("upper", "reg", UpperRoot, "a"))
\* upper /a (empty directory)
LayoutUpperDir == (3 :> Obj("upper", "dir", UpperRoot, "a"))

\* steps 1 to 4 of do_rm: the guards, the two lookup_node calls and, for a
\* directory, the test that it is empty; node: the child that was found
RmFind(s, parent, name, dir) ==
    IF ~s.upper THEN R(s, "EROFS")
    ELSE
      Let([pl \in {lookup_node(s, parent, "")} |->
        IF pl.err # "OK" THEN pl
        ELSE IF pl.st.nodes[pl.node].whiteout THEN R(pl.st, "ENOENT")
        ELSE
          Let([nl \in {lookup_node(pl.st, parent, name)} |->
            IF nl.err # "OK" THEN nl
            ELSE IF nl.st.nodes[nl.node].whiteout THEN R(nl.st, "ENOENT")
            ELSE IF ~dir THEN nl
            ELSE
              Let([ld \in {load_directory(nl.st, nl.node)} |->
                IF ld.err # "OK" THEN ld
                ELSE
                  Let([cw \in {count_entries_and_whiteout(ld.st, nl.node)} |->
                    IF stat64(ld.st, nl.node) = "ENOENT" THEN R(ld.st, "ENOENT")
                    ELSE IF stat64(ld.st, nl.node) # "dir" THEN R(ld.st, "ENOTDIR")
                    ELSE IF cw[1] > 0 THEN R(ld.st, "ENOTEMPTY")
                    ELSE
                      Let([e \in {IF cw[2] > 0 /\ in_upper_layer(ld.st, nl.node)
                                  THEN empty_node_directory(ld.st, nl.node)
                                  ELSE R(ld.st, "OK")} |->
                        IF e.err # "OK" THEN e ELSE RN(e.st, nl.node)])])])])])

\* step 6 of do_rm, first part: the closure df under the parent's lock, when
\* the node is in the upper layer; need: need_whiteout after it
RmLayer(s, pnode, node, name, dir, need) ==
    IF ~in_upper_layer(s, node) THEN [st |-> s, err |-> "OK", need |-> need]
    ELSE
      Let([h \in {handle_upper_inode_locked(s, pnode)} |->
        IF h.err # "OK" THEN [st |-> s, err |-> h.err, need |-> need]
        ELSE IF h.ri = <<>> THEN [st |-> s, err |-> "EINVAL", need |-> need]
        ELSE
          Let([rm \in {IF dir THEN LayerRmdir(s, h.ri[1].inode, name)
                       ELSE LayerUnlink(s, h.ri[1].inode, name)} |->
            [st |-> rm.st, err |-> rm.err,
             need |-> need /\ ~h.ri[1].opaque]])])

InitRm ==
    \E layout \in {LayoutFile, LayoutDir, LayoutUpperFile, LayoutUpperDir} :
      \E s \in {import(TRUE, layout, MapOrder)} :
        /\ nodes = s.nodes
        /\ inodes = s.inodes
        /\ deleted = s.deleted
        /\ path_mapping = s.path_mapping
        /\ nlinks = s.nlinks
        /\ next_inode = s.next_inode
        /\ inode_limit = s.inode_limit
        /\ objs = s.objs
        /\ upper_layer = TRUE
        /\ last = [op |-> "import"]
        /\ served = 0
        /\ copy = <<>>
        /\ \E dir \in [RmTasks -> BOOLEAN] :
             tasks = [t \in RmTasks |->
                        [parent |-> RootInode, name |-> "a", dir |-> dir[t],
                         pc |-> "start", pnode |-> 0, node |-> 0,
                         need_whiteout |-> TRUE, err |-> ""]]

RmReturn(t, err) == [tasks EXCEPT ![t].pc = "done", ![t].err = err]

\* do_rm up to the end of its step 4
RmFindStep(t) ==
    /\ tasks[t].pc = "start"
    /\ \E r \in {RmFind(St(MapOrder), tasks[t].parent, tasks[t].name,
                        tasks[t].dir)} :
         /\ CountCommit(r.st)
         /\ tasks' = IF r.err # "OK" THEN RmReturn(t, r.err)
                     ELSE [tasks EXCEPT
                             ![t].pc = "copy", ![t].node = r.node,
                             ![t].pnode = get_all_inode(r.st, tasks[t].parent)]
    /\ UNCHANGED last

\* step 5: copy_node_up of the parent, and upper_layer_only of the node
RmCopyStep(t) ==
    /\ tasks[t].pc = "copy"
    /\ \E r \in {copy_node_up(St(MapOrder), tasks[t].pnode)} :
         /\ CountCommit(r.st)
         /\ tasks' = IF r.err # "OK" THEN RmReturn(t, r.err)
                     ELSE [tasks EXCEPT
                             ![t].pc = "layer", ![t].pnode = r.node,
                             ![t].need_whiteout =
                                 ~upper_layer_only(r.st, tasks[t].node)]
    /\ UNCHANGED last

\* step 6: the removal from the upper layer
RmLayerStep(t) ==
    /\ tasks[t].pc = "layer"
    /\ \E r \in {RmLayer(St(MapOrder), tasks[t].pnode, tasks[t].node,
                         tasks[t].name, tasks[t].dir, tasks[t].need_whiteout)} :
         /\ CountCommit(r.st)
         /\ tasks' = IF r.err # "OK" THEN RmReturn(t, r.err)
                     ELSE [tasks EXCEPT ![t].pc = "child",
                                        ![t].need_whiteout = r.need]
    /\ UNCHANGED last

\* step 6: `pnode.remove_child(name)`
RmChildStep(t) ==
    /\ tasks[t].pc = "child"
    /\ CountCommit(remove_child(St(MapOrder), tasks[t].pnode, tasks[t].name))
    /\ tasks' = [tasks EXCEPT ![t].pc = "store"]
    /\ UNCHANGED last

\* step 6: `self.remove_inode(node.inode, Some(path))`
RmStoreStep(t) ==
    /\ tasks[t].pc = "store"
    /\ CountCommit(remove_inode(St(MapOrder), nodes[tasks[t].node].inode,
                                <<nodes[tasks[t].node].path>>))
    /\ tasks' = IF tasks[t].need_whiteout
                THEN [tasks EXCEPT ![t].pc = "whiteout"]
                ELSE RmReturn(t, "OK")
    /\ UNCHANGED last

\* step 7: the whiteout and its node
RmWhiteoutStep(t) ==
    /\ tasks[t].pc = "whiteout"
    /\ \E r \in {RmWhiteout(St(MapOrder), tasks[t].pnode, tasks[t].name)} :
         /\ ~r.st.full
         /\ CountCommit(r.st)
         /\ tasks' = RmReturn(t, r.err)
    /\ UNCHANGED last

\* the future of the request is dropped at one of its awaits
RmCancel(t) ==
    /\ tasks[t].pc \in {"copy", "layer", "child", "store", "whiteout"}
    /\ tasks' = RmReturn(t, "cancelled")
    /\ CountCommit(St(MapOrder))
    /\ UNCHANGED last

NextRm ==
    \E t \in RmTasks :
        \/ RmFindStep(t)
        \/ RmCopyStep(t)
        \/ RmLayerStep(t)
        \/ RmChildStep(t)
        \/ RmStoreStep(t)
        \/ RmWhiteoutStep(t)
        \/ RmCancel(t)

SpecRm == InitRm /\ [][NextRm]_vars

\* the whiteout nodes of /a
WhiteoutNodes ==
    {n \in DOMAIN nodes : nodes[n].whiteout /\ nodes[n].path = <<"a">>}

\* C38: in every interleaving of two unlink or rmdir requests for the same
\* parent and name, at most one returns success, no nlink counter is taken
\* below zero and at most one whiteout node is made.
C38_OneRemovalWins ==
    (\A t \in RmTasks : tasks[t].pc = "done" /\ tasks[t].err # "cancelled")
    => /\ ~(\A t \in RmTasks : tasks[t].err = "OK")
       /\ \A K \in DOMAIN nlinks : nlinks[K] # U64Max
       /\ Cardinality(WhiteoutNodes) <= 1

\* each child of a live node is the node that the active map holds under its
\* number, has a RealInode, and the first of them has its entry in the layer
ChildrenConsistent ==
    \A D \in LiveNodes : \A name \in DOMAIN nodes[D].childrens :
      \E c \in {nodes[D].childrens[name]} :
        /\ nodes[c].inode \in DOMAIN inodes
        /\ inodes[nodes[c].inode] = c
        /\ nodes[c].real_inodes # <<>>
        /\ objs[nodes[c].real_inodes[1].inode].linked

\* C32: when a removal is cancelled at one of its awaits (no other request
\* having run), the state in memory is consistent: every node of a children
\* map is the node of the active map for its number and has its entry in
\* the layer of its first RealInode, and no node has an empty real_inodes.
C32_CancelConsistent ==
    (\E t \in RmTasks :
        /\ tasks[t].err = "cancelled"
        /\ tasks[3 - t].pc = "start")
    => /\ ChildrenConsistent
       /\ \A n \in LiveNodes : nodes[n].real_inodes # <<>>

====
